---- MODULE Spec2Model ----
(***************************************************************************)
(* State-machine model of scseg.mlda.Scseg, the online/batch variational   *)
(* EM estimator (src/src/scseg/mlda.py).                                    *)
(*                                                                         *)
(* Numbers.  Python floats are modelled as fixed-point integers with       *)
(* resolution 1/Unit: the real number r is the integer r*Unit, products    *)
(* are rescaled with floor division.  The special functions of the         *)
(* external libraries (digamma, exp, gammaln) are replaced by fixed-point  *)
(* surrogates that keep their sign, monotonicity and log/exp relation.     *)
(* None is the empty tuple <<>>; an optional scalar v is <<v>>.            *)
(***************************************************************************)
EXTENDS Integers, Sequences, FiniteSets, TLC

\* ------------------------------------------------------------------ bounds
\* fixed-point resolution: the real 1.0 is the integer Unit
Unit == 16
\* largest number of documents (rows) of an input matrix
MaxDocs == 3

\* ------------------------------------------------------------- arithmetic
None == <<>>

Min(a, b) == IF a < b THEN a ELSE b
Max(a, b) == IF a > b THEN a ELSE b
Abs(a) == IF a < 0 THEN -a ELSE a

\* a tuple given element by element, as a stored array
V(f) == SubSeq(f, 1, Len(f))

\* a / b on floats; numpy yields +-inf (or nan) for b = 0 and raises nothing
Inf == Unit * Unit * Unit * Unit
Div(a, b) ==
    IF b = 0 THEN (IF a < 0 THEN -Inf ELSE Inf)
    ELSE IF b < 0 THEN (-a) \div (-b)
    ELSE a \div b

\* product of two fixed-point numbers
Mul(a, b) == (a * b) \div Unit

RECURSIVE SumSeq(_)
SumSeq(s) == IF s = <<>> THEN 0 ELSE Head(s) + SumSeq(Tail(s))

RECURSIVE Power(_, _)
Power(b, e) == IF e <= 0 THEN 1 ELSE b * Power(b, e - 1)

\* numpy.random.RandomState: a linear congruential stream
RngNext(r) == (r * 5 + 3) % 64
\* random_state.gamma(100., 0.01): a draw close to 1.0
GammaDraw(r) == Unit + ((r \div 4) % 3) - 1

\* n successive draws: the values and the generator state after them
RECURSIVE GammaVec(_, _)
GammaVec(r, n) ==
    IF n = 0 THEN [val |-> <<>>, rng |-> r]
    ELSE LET rest == GammaVec(RngNext(r), n - 1)
         IN  [val |-> <<GammaDraw(RngNext(r))>> \o rest.val, rng |-> rest.rng]

\* random_state.gamma(100., 0.01, (rows, cols))
RECURSIVE GammaMat(_, _, _)
GammaMat(r, rows, cols) ==
    IF rows = 0 THEN [val |-> <<>>, rng |-> r]
    ELSE LET first == GammaVec(r, cols)
             rest == GammaMat(first.rng, rows - 1, cols)
         IN  [val |-> <<first.val>> \o rest.val, rng |-> rest.rng]

\* np.finfo(float).eps: the smallest positive increment of the resolution
EPS == 1

\* sklearn _dirichlet_expectation_2d, one row: E[log theta_k] =
\* digamma(a_k) - digamma(sum a), here ln(a_k / sum a) with ln z ~ z - 1
DirichletExpectationRow(row) ==
    V([k \in 1..Len(row) |-> Div(row[k] * Unit, SumSeq(row)) - Unit])

_dirichlet_expectation_2d(m) ==
    V([d \in 1..Len(m) |-> DirichletExpectationRow(m[d])])

\* np.exp on a scalar: strictly positive, inverse of the ln surrogate
NpExp(l) == Max(1, l + Unit)
NpExpRow(row) == V([k \in 1..Len(row) |-> NpExp(row[k])])
NpExpMat(m) == V([d \in 1..Len(m) |-> NpExpRow(m[d])])

\* np.log on a positive fixed-point scalar
NpLog(z) == z - Unit

\* scipy.special.gammaln: zero at 1 and 2, negative between, convex
GammaLn(x) == ((x - Unit) * (x - 2 * Unit)) \div (2 * Unit)

\* sklearn mean_change: mean absolute difference of two vectors
mean_change(a, b) ==
    SumSeq(V([k \in 1..Len(a) |-> Abs(a[k] - b[k])])) \div Len(a)

\* ---------------------------------------------------------------- matrices
NCols(m) == IF m = <<>> THEN 0 ELSE Len(m[1])
Zeros(rows, cols) == V([k \in 1..rows |-> V([w \in 1..cols |-> 0])])
MatAdd(a, b) == V([k \in 1..Len(a) |-> V([w \in 1..Len(a[k]) |-> a[k][w] + b[k][w]])])
\* X[lo:hi, :] with 0-based half-open bounds
RowSlice(m, lo, hi) == SubSeq(m, lo + 1, hi)
\* the stored (non-zero) column indices of one document
Ids(row) == {w \in 1..Len(row) : row[w] # 0}

\* ------------------------------------------------- E-step, plain LDA path
\* norm_phi = np.dot(exp_doc_topic_d, exp_topic_word_d) + EPS for column w
\* (kept at resolution 1/Unit^2)
NormPhi(exp_doc_topic_d, exp_topic_word_distr, w) ==
    SumSeq(V([k \in 1..Len(exp_doc_topic_d) |->
               exp_doc_topic_d[k] * exp_topic_word_distr[k][w]])) + EPS

\* exp_doc_topic_d[k] * cnts[w] / norm_phi[w] * exp_topic_word_d[k, w]
PhiTerm(cnts, exp_doc_topic_d, exp_topic_word_distr, k, w) ==
    Div(cnts[w] * Unit * exp_doc_topic_d[k] * exp_topic_word_distr[k][w],
        NormPhi(exp_doc_topic_d, exp_topic_word_distr, w))

\* sum over the stored columns of a document
RECURSIVE SumOver(_, _)
SumOver(f, S) ==
    IF S = {} THEN 0
    ELSE LET w == CHOOSE v \in S : TRUE IN f[w] + SumOver(f, S \ {w})

\* doc_topic_d = exp_doc_topic_d * np.dot(cnts / norm_phi, exp_topic_word_d.T)
LdaDocTopic(cnts, exp_doc_topic_d, exp_topic_word_distr) ==
    V([k \in 1..Len(exp_doc_topic_d) |->
        SumOver([w \in Ids(cnts) |->
                    PhiTerm(cnts, exp_doc_topic_d, exp_topic_word_distr, k, w)],
                Ids(cnts))])

\* a variant of the in-place expectation that does not add the prior
_dirichlet_expectation_1d_without_prior(doc_topic_d, doc_topic_prior) ==
    [d |-> doc_topic_d, e |-> NpExpRow(DirichletExpectationRow(doc_topic_d))]

\* _dirichlet_expectation_1d(doc_topic_d, prior, out): adds the prior to
\* doc_topic_d in place and writes exp(E[log theta]) to out
_dirichlet_expectation_1d(doc_topic_d, doc_topic_prior) ==
    LET d == V([k \in 1..Len(doc_topic_d) |-> doc_topic_d[k] + doc_topic_prior])
    IN  [d |-> d, e |-> NpExpRow(DirichletExpectationRow(d))]

\* the per-document fixed-point loop `for _ in xrange(0, max_iters)`
RECURSIVE LdaDocLoop(_, _, _, _, _, _, _)
LdaDocLoop(cnts, exp_topic_word_distr, doc_topic_prior, mean_change_tol, doc_topic_d, exp_doc_topic_d, iters_left) ==
    IF iters_left <= 0 THEN [d |-> doc_topic_d, e |-> exp_doc_topic_d]
    ELSE LET last_d == doc_topic_d
             upd == _dirichlet_expectation_1d(
                        LdaDocTopic(cnts, exp_doc_topic_d, exp_topic_word_distr),
                        doc_topic_prior)
         IN  IF mean_change(last_d, upd.d) < mean_change_tol THEN upd
             ELSE LdaDocLoop(cnts, exp_topic_word_distr, doc_topic_prior,
                             mean_change_tol, upd.d, upd.e, iters_left - 1)

\* contribution of one document to suff_stats[:, ids]
LdaDocSstats(cnts, exp_doc_topic_d, exp_topic_word_distr) ==
    V([k \in 1..Len(exp_doc_topic_d) |->
        V([w \in 1..Len(cnts) |->
            IF w \in Ids(cnts)
            THEN PhiTerm(cnts, exp_doc_topic_d, exp_topic_word_distr, k, w)
            ELSE 0])])

\* the initial doc_topic_distr: gamma draws when a random state is given,
\* np.ones otherwise; rng is the generator state after the draws
InitDocTopic(random_state, n_samples, n_topics) ==
    IF random_state # None
    THEN LET g == GammaMat(random_state[1], n_samples, n_topics)
         IN  [val |-> g.val, rng |-> <<g.rng>>]
    ELSE [val |-> V([d \in 1..n_samples |-> V([k \in 1..n_topics |-> Unit])]),
          rng |-> None]

\* the running result of the document loop with one more document
LdaDocsAdd(acc, cnts, fix, exp_topic_word_distr, cal_sstats) ==
    [acc EXCEPT !.doc_topic_distr = Append(@, fix.d),
                !.suff_stats = IF cal_sstats
                               THEN MatAdd(@, LdaDocSstats(cnts, fix.e, exp_topic_word_distr))
                               ELSE None]

RECURSIVE LdaDocs(_, _, _, _, _, _, _, _, _)
LdaDocs(X, exp_topic_word_distr, doc_topic_prior, max_iters, mean_change_tol, cal_sstats, doc_topic_distr, idx_d, acc) ==
    IF idx_d > Len(X) THEN acc
    ELSE LdaDocs(X, exp_topic_word_distr, doc_topic_prior, max_iters, mean_change_tol,
                 cal_sstats, doc_topic_distr, idx_d + 1,
                 LdaDocsAdd(acc, X[idx_d],
                     LdaDocLoop(X[idx_d], exp_topic_word_distr, doc_topic_prior,
                                mean_change_tol, doc_topic_distr[idx_d],
                                NpExpRow(DirichletExpectationRow(doc_topic_distr[idx_d])),
                                max_iters),
                     exp_topic_word_distr, cal_sstats))

\* the document loop of the plain path from the initial doc_topic_distr
LdaFrom(X, exp_topic_word_distr, doc_topic_prior, max_iters, mean_change_tol, cal_sstats, init) ==
    LdaDocs(X, exp_topic_word_distr, doc_topic_prior, max_iters, mean_change_tol,
            cal_sstats, init.val, 1,
            [doc_topic_distr |-> <<>>,
             suff_stats |-> IF cal_sstats
                            THEN Zeros(Len(exp_topic_word_distr), NCols(exp_topic_word_distr))
                            ELSE None,
             dist_targets |-> None,
             rng |-> init.rng,
             err |-> "ok"])

_update_doc_distribution_lda(X, exp_topic_word_distr, doc_topic_prior, max_iters, mean_change_tol, cal_sstats, random_state) ==
    LdaFrom(X, exp_topic_word_distr, doc_topic_prior, max_iters, mean_change_tol, cal_sstats,
            InitDocTopic(random_state, Len(X), Len(exp_topic_word_distr)))

\* ----------------------------------------- E-step, Markov path (gap matrix)
\* logistic function on a fixed-point argument; saturates at 0.0 and 1.0 as
\* the float sigmoid does for large arguments
Sigmoid(a) == Max(0, Min(Unit, (Unit \div 2) + (a \div 4)))

\* the active bins of a document in ascending column order
RECURSIVE SortedIds(_)
SortedIds(S) ==
    IF S = {} THEN <<>>
    ELSE LET w == CHOOSE v \in S : \A u \in S : v <= u IN <<w>> \o SortedIds(S \ {w})

\* the argument the capping rule assigns to a gap above max_dist
CappedArg == 100 * Unit

\* log_sig_arg = y[idx_d, :(len(ids)-1)] * reg_weights[1] + reg_weights[0];
\* log_sig_arg[y[idx_d, :(len(ids)-1)] > max_dist] = 100.
LogSigArg(y_d, n_ids, reg_weights, max_dist) ==
    V([i \in 1..Min(n_ids - 1, Len(y_d)) |->
        IF y_d[i] > max_dist THEN CappedArg
        ELSE y_d[i] * reg_weights[2] + reg_weights[1]])

\* rescale a lattice column to the total Unit * Unit
LatticeNorm(col) ==
    LET tot == SumSeq(V([k \in 1..Len(col) |-> col[k][1] + col[k][2]]))
    IN  V([k \in 1..Len(col) |->
            <<Div(col[k][1] * Unit * Unit, tot), Div(col[k][2] * Unit * Unit, tot)>>])

\* one forward column: index 1 is "fresh start", index 2 "label continues"
FwdStep(prev, theta, beta_t, p) ==
    LET tot == SumSeq(V([k \in 1..Len(prev) |-> prev[k][1] + prev[k][2]]))
    IN  LatticeNorm(V([k \in 1..Len(theta) |->
            << (p * tot * theta[k] * beta_t[k]) \div (Unit * Unit * Unit),
               ((Unit - p) * (prev[k][1] + prev[k][2]) * beta_t[k]) \div (Unit * Unit) >>]))

\* _forward: fwdlattice[t][k] = <<fresh, continues>>
RECURSIVE _forward(_, _, _, _)
_forward(theta, beta, p, t) ==
    IF t = 0 THEN <<>>
    ELSE IF t = 1
    THEN << LatticeNorm(V([k \in 1..Len(theta) |-> <<theta[k] * beta[1][k], 0>>])) >>
    ELSE LET f == _forward(theta, beta, p, t - 1)
         IN  Append(f, FwdStep(f[t - 1], theta, beta[t], p[t - 1]))

\* one backward column from its successor
BwdStep(next, theta, beta_next, p) ==
    LET fresh == SumSeq(V([j \in 1..Len(theta) |-> theta[j] * beta_next[j] * next[j]]))
        col == V([k \in 1..Len(theta) |->
                  (p * fresh) \div (Unit * Unit * Unit)
                  + ((Unit - p) * beta_next[k] * next[k]) \div (Unit * Unit)])
    IN  V([k \in 1..Len(col) |-> Div(col[k] * Unit * Unit, SumSeq(col))])

\* _backward: bwdlattice[t][k], filled from t = L down to t
RECURSIVE _backward(_, _, _, _, _)
_backward(theta, beta, p, t, L) ==
    IF L = 0 THEN <<>>
    ELSE IF t = L THEN << V([k \in 1..Len(theta) |-> Unit]) >>
    ELSE LET b == _backward(theta, beta, p, t + 1, L)
         IN  <<BwdStep(b[1], theta, beta[t + 1], p[t])>> \o b

\* posterior topic weight of bin t: (F[t,k,.] * B[t,k]) normalised over k
Posterior(fwd, bwd, t) ==
    LET raw == V([k \in 1..Len(fwd[t]) |-> (fwd[t][k][1] + fwd[t][k][2]) * bwd[t][k]])
    IN  V([k \in 1..Len(raw) |-> Div(raw[k] * Unit, SumSeq(raw))])

\* _compute_theta_sstats: expected topic counts of the document
_compute_theta_sstats(cnts_seq, fwd, bwd, n_topics) ==
    V([k \in 1..n_topics |->
        SumSeq(V([t \in 1..Len(cnts_seq) |-> cnts_seq[t] * Posterior(fwd, bwd, t)[k]]))])

\* _compute_beta_sstats: expected emission counts at (k, feature(t))
_compute_beta_sstats(cnts_seq, ids_seq, fwd, bwd, n_topics, n_features) ==
    V([k \in 1..n_topics |->
        V([w \in 1..n_features |->
            SumSeq(V([t \in 1..Len(ids_seq) |->
                IF ids_seq[t] = w THEN cnts_seq[t] * Posterior(fwd, bwd, t)[k] ELSE 0]))])])

\* _compute_log_reg_targets: per gap, the expected indicator that the label
\* did not carry over (the bin after the gap is a fresh start)
_compute_log_reg_targets(fwd, bwd, n_gaps) ==
    V([i \in 1..n_gaps |->
        IF i + 1 <= Len(fwd)
        THEN Div(SumSeq(V([k \in 1..Len(fwd[i + 1]) |-> fwd[i + 1][k][1] * bwd[i + 1][k]])) * Unit,
                 SumSeq(V([k \in 1..Len(fwd[i + 1]) |->
                            (fwd[i + 1][k][1] + fwd[i + 1][k][2]) * bwd[i + 1][k]])))
        ELSE 0])

\* one pass of the Markov loop: the lattices under the current topic weights
\* and the document's topic distribution they give
MarkovDocUpdate(cnts_seq, beta, p, doc_topic_prior, theta, n_topics) ==
    LET sst == _compute_theta_sstats(cnts_seq, _forward(theta, beta, p, Len(cnts_seq)),
                                     _backward(theta, beta, p, 1, Len(cnts_seq)), n_topics)
    IN  V([k \in 1..n_topics |-> sst[k] + doc_topic_prior])

\* the per-document fixed-point loop of the Markov path
RECURSIVE MarkovDocLoop(_, _, _, _, _, _, _, _)
\* a variant of the test that goes on whatever the change is
MarkovDocTestIgnoringTolerance(cnts_seq, beta, p, doc_topic_prior, mean_change_tol, last_d, d, iters_left) ==
    MarkovDocLoop(cnts_seq, beta, p, doc_topic_prior, mean_change_tol,
                  d, DirichletExpectationRow(d), iters_left - 1)

\* a variant of the test that ends the loop with the expectation the last
\* lattices were computed under
MarkovDocTestKeepingLastExpectation(cnts_seq, beta, p, doc_topic_prior, mean_change_tol, last_d, d, iters_left) ==
    IF mean_change(last_d, d) < mean_change_tol \/ iters_left <= 1
    THEN [d |-> d, e |-> DirichletExpectationRow(last_d)]
    ELSE MarkovDocLoop(cnts_seq, beta, p, doc_topic_prior, mean_change_tol,
                       d, DirichletExpectationRow(d), iters_left - 1)

\* the convergence test that ends a pass of the loop
MarkovDocTest(cnts_seq, beta, p, doc_topic_prior, mean_change_tol, last_d, d, iters_left) ==
    IF mean_change(last_d, d) < mean_change_tol
    THEN [d |-> d, e |-> DirichletExpectationRow(d)]
    ELSE MarkovDocLoop(cnts_seq, beta, p, doc_topic_prior, mean_change_tol,
                       d, DirichletExpectationRow(d), iters_left - 1)

MarkovDocLoop(cnts_seq, beta, p, doc_topic_prior, mean_change_tol, doc_topic_d, expected_log_doc_topic_d, iters_left) ==
    IF iters_left <= 0 THEN [d |-> doc_topic_d, e |-> expected_log_doc_topic_d]
    ELSE MarkovDocTest(cnts_seq, beta, p, doc_topic_prior, mean_change_tol, doc_topic_d,
                       MarkovDocUpdate(cnts_seq, beta, p, doc_topic_prior,
                                       NpExpRow(expected_log_doc_topic_d), Len(doc_topic_d)),
                       iters_left)

\* the statistics of one document from the lattices of its final topic weights
MarkovDocStats(cnts_seq, ids_seq, fwd, bwd, n_topics, n_features, n_gaps, cal_sstats, doc_topic_d) ==
    [err |-> "ok",
     doc_topic_d |-> doc_topic_d,
     log_beta_stats |->
         IF cal_sstats
         THEN _compute_beta_sstats(cnts_seq, ids_seq, fwd, bwd, n_topics, n_features)
         ELSE None,
     dist_targets_d |->
         IF cal_sstats THEN _compute_log_reg_targets(fwd, bwd, n_gaps) ELSE None]

\* the lattices recomputed after the loop, under the loop's last expectation
MarkovDocFinal(cnts_seq, ids_seq, beta, p, fix, n_topics, n_features, n_gaps, cal_sstats) ==
    MarkovDocStats(cnts_seq, ids_seq,
                   _forward(NpExpRow(fix.e), beta, p, Len(cnts_seq)),
                   _backward(NpExpRow(fix.e), beta, p, 1, Len(cnts_seq)),
                   n_topics, n_features, n_gaps, cal_sstats, fix.d)

\* the active bins of a document as the lattices see them
MarkovDocBins(cnts, y_d, exp_topic_word_distr, reg_weights, max_dist) ==
    LET ids_seq == SortedIds(Ids(cnts))
    IN  [ids_seq |-> ids_seq,
         cnts_seq |-> V([t \in 1..Len(ids_seq) |-> cnts[ids_seq[t]]]),
         beta |-> V([t \in 1..Len(ids_seq) |->
                      V([k \in 1..Len(exp_topic_word_distr) |->
                          NpExp(exp_topic_word_distr[k][ids_seq[t]])])]),
         p |-> V([i \in 1..(Len(ids_seq) - 1) |->
                   Sigmoid(LogSigArg(y_d, Len(ids_seq), reg_weights, max_dist)[i])])]

\* one document of _update_doc_distribution_markovlda on its active bins
MarkovDocOn(b, n_topics, n_features, n_gaps, doc_topic_prior, max_iters, mean_change_tol, cal_sstats, doc_topic_d0) ==
    MarkovDocFinal(b.cnts_seq, b.ids_seq, b.beta, b.p,
                   MarkovDocLoop(b.cnts_seq, b.beta, b.p, doc_topic_prior, mean_change_tol,
                                 doc_topic_d0, DirichletExpectationRow(doc_topic_d0),
                                 max_iters),
                   n_topics, n_features, n_gaps, cal_sstats)

\* one document of _update_doc_distribution_markovlda
MarkovDoc(cnts, y_d, exp_topic_word_distr, doc_topic_prior, reg_weights, max_dist, max_iters, mean_change_tol, cal_sstats, doc_topic_d0) ==
    \* np.zeros(len(ids) - 1) raises for a document without active bins
    IF Ids(cnts) = {} THEN [err |-> "ValueError"]
    \* reg_weights[1] on None (the model has no reg_weights_)
    ELSE IF reg_weights = None THEN [err |-> "TypeError"]
    ELSE MarkovDocOn(MarkovDocBins(cnts, y_d, exp_topic_word_distr, reg_weights, max_dist),
                     Len(exp_topic_word_distr), Len(cnts), Len(y_d), doc_topic_prior,
                     max_iters, mean_change_tol, cal_sstats, doc_topic_d0)

\* the running result of the document loop with one more document
MarkovDocsAdd(acc, r, cal_sstats) ==
    IF r.err # "ok" THEN [acc EXCEPT !.err = r.err]
    ELSE [doc_topic_distr |-> Append(acc.doc_topic_distr, r.doc_topic_d),
          suff_stats |-> IF cal_sstats THEN MatAdd(acc.suff_stats, r.log_beta_stats)
                         ELSE None,
          dist_targets |-> IF cal_sstats THEN Append(acc.dist_targets, r.dist_targets_d)
                           ELSE None,
          rng |-> acc.rng,
          err |-> "ok"]

RECURSIVE MarkovDocs(_, _, _, _, _, _, _, _, _, _, _, _)
MarkovDocs(X, y, exp_topic_word_distr, doc_topic_prior, reg_weights, max_dist, max_iters, mean_change_tol, cal_sstats, doc_topic_distr, idx_d, acc) ==
    IF idx_d > Len(X) \/ acc.err # "ok" THEN acc
    ELSE MarkovDocs(X, y, exp_topic_word_distr, doc_topic_prior, reg_weights, max_dist,
                    max_iters, mean_change_tol, cal_sstats, doc_topic_distr, idx_d + 1,
                    MarkovDocsAdd(acc,
                        MarkovDoc(X[idx_d], y[idx_d], exp_topic_word_distr, doc_topic_prior,
                                  reg_weights, max_dist, max_iters, mean_change_tol,
                                  cal_sstats, doc_topic_distr[idx_d]),
                        cal_sstats))

\* the document loop of the Markov path from the initial doc_topic_distr
MarkovFrom(X, y, exp_topic_word_distr, doc_topic_prior, reg_weights, max_dist, max_iters, mean_change_tol, cal_sstats, init) ==
    MarkovDocs(X, y, exp_topic_word_distr, doc_topic_prior, reg_weights,
                max_dist, max_iters, mean_change_tol, cal_sstats, init.val, 1,
                [doc_topic_distr |-> <<>>,
                 suff_stats |-> IF cal_sstats
                                THEN Zeros(Len(exp_topic_word_distr),
                                           NCols(exp_topic_word_distr))
                                ELSE None,
                 dist_targets |-> IF cal_sstats THEN <<>> ELSE None,
                 rng |-> init.rng,
                 err |-> "ok"])

_update_doc_distribution_markovlda(X, y, exp_topic_word_distr, doc_topic_prior, reg_weights, max_dist, max_iters, mean_change_tol, cal_sstats, random_state) ==
    MarkovFrom(X, y, exp_topic_word_distr, doc_topic_prior, reg_weights, max_dist,
               max_iters, mean_change_tol, cal_sstats,
               InitDocTopic(random_state, Len(X), Len(exp_topic_word_distr)))

\* dispatch on the presence of the gap matrix
_update_doc_distribution(X, y, exp_topic_word_distr, doc_topic_prior, reg_weights, max_dist, max_iters, mean_change_tol, cal_sstats, random_state) ==
    IF y = None
    THEN _update_doc_distribution_lda(X, exp_topic_word_distr, doc_topic_prior,
                                      max_iters, mean_change_tol, cal_sstats, random_state)
    ELSE _update_doc_distribution_markovlda(X, y, exp_topic_word_distr, doc_topic_prior,
                                            reg_weights, max_dist, max_iters,
                                            mean_change_tol, cal_sstats, random_state)

\* ------------------------------------------------------- the Scseg object
\* An object is a function from the names of the attributes it has to their
\* values: hasattr(o, a) is a \in DOMAIN o.
hasattr(o, a) == a \in DOMAIN o
SetAttr(o, a, v) == [b \in (DOMAIN o) \cup {a} |-> IF b = a THEN v ELSE o[b]]

\* the constructor arguments (Scseg.__init__), scaled to the model's ranges
DefaultParams ==
    [n_components |-> 2, doc_topic_prior |-> None, topic_word_prior |-> None,
     learning_method |-> "batch", learning_decay |-> 1, learning_offset |-> 1,
     max_iter |-> 2, batch_size |-> 2, evaluate_every |-> -1, total_samples |-> 100,
     perp_tol |-> 1, mean_change_tol |-> 1, max_doc_update_iter |-> 3,
     n_jobs |-> None, random_state |-> 7, n_topics |-> None, n_seeds |-> None,
     reg_weights |-> None, no_regression |-> FALSE, max_dist |-> 4]

\* a variant of the checks that lets a non-positive total_samples through
ParamErrorWithoutTotalSamples(o) ==
    IF o["_n_components"] <= 0 THEN "ValueError: Invalid 'n_components' parameter"
    ELSE IF o.learning_offset < 0 THEN "ValueError: Invalid 'learning_offset' parameter"
    ELSE IF o.learning_method \notin {"batch", "online"}
         THEN "ValueError: Invalid 'learning_method' parameter"
    ELSE "ok"

\* Scseg._check_params: the error it raises ("ok" when it returns)
ParamError(o) ==
    IF o["_n_components"] <= 0 THEN "ValueError: Invalid 'n_components' parameter"
    ELSE IF o.total_samples <= 0 THEN "ValueError: Invalid 'total_samples' parameter"
    ELSE IF o.learning_offset < 0 THEN "ValueError: Invalid 'learning_offset' parameter"
    ELSE IF o.learning_method \notin {"batch", "online"}
         THEN "ValueError: Invalid 'learning_method' parameter"
    ELSE "ok"

\* Scseg._check_params: the object after the call and the error raised
_check_params(o) ==
    LET o1 == SetAttr(o, "_n_components",
                      IF o.n_topics # None THEN o.n_topics[1] ELSE o.n_components)
    IN  IF ParamError(o1) # "ok" THEN [self |-> o1, err |-> ParamError(o1)]
        ELSE [self |-> SetAttr(o1, "max_dist_", o.max_dist), err |-> "ok"]

\* check_non_negative: some entry of X is negative
HasNegative(X) == \E d \in 1..Len(X) : \E w \in 1..Len(X[d]) : X[d][w] < 0

\* a variant of the check that looks at the document totals only
_check_non_neg_array_of_sums(X) ==
    IF \E d \in 1..Len(X) : SumSeq(X[d]) < 0
    THEN "ValueError: Negative values in data" ELSE "ok"

\* Scseg._check_non_neg_array: the error it raises ("ok" when it returns X)
_check_non_neg_array(X) ==
    IF HasNegative(X) THEN "ValueError: Negative values in data" ELSE "ok"

\* random_state.permutation(n): a rotation chosen by the generator
Permutation(r, n) == V([j \in 1..n |-> ((j - 1 + RngNext(r)) % n) + 1])

\* extract_seed: document means of K * n_seeds sampled rows, times 2, plus 1/K;
\* the reshape raises when fewer rows than K * n_seeds are available
extract_seed(X, n_components, n_seeds, r) ==
    LET perm == Permutation(r, Len(X))
        idx == SubSeq(perm, 1, Min(Len(X), n_components * n_seeds))
    IN  IF Len(idx) # n_components * n_seeds \/ n_seeds <= 0
        THEN [err |-> "ValueError: cannot reshape", rng |-> RngNext(r)]
        ELSE [err |-> "ok", rng |-> RngNext(r),
              val |-> V([k \in 1..n_components |->
                        V([w \in 1..NCols(X) |->
                            Div(SumSeq(V([sd \in 1..n_seeds |->
                                    X[idx[(sd - 1) * n_components + k]][w]])) * Unit * 2,
                                n_seeds)
                            + Div(Unit, n_components)])])]

\* Scseg._init_latent_vars(n_features, X): the object after the call and the
\* error raised; use_X is `X is not None`
_init_latent_vars(o, n_features, X, use_X) ==
    LET o1 == SetAttr(SetAttr(SetAttr(o, "random_state_", o.random_state),
                              "n_batch_iter_", 1), "n_iter_", 0)
        o2 == SetAttr(o1, "doc_topic_prior_",
                      IF o.doc_topic_prior = None THEN Div(Unit, o["_n_components"])
                      ELSE o.doc_topic_prior[1])
        o3 == SetAttr(o2, "topic_word_prior_",
                      IF o.topic_word_prior = None THEN Div(Unit, o["_n_components"])
                      ELSE o.topic_word_prior[1])
        g == GammaMat(o3["random_state_"], o["_n_components"], n_features)
        sd == extract_seed(X, o["_n_components"], o.n_seeds[1], o3["random_state_"])
    IN  IF ~use_X
        THEN [self |-> SetAttr(SetAttr(o3, "components_", g.val), "random_state_", g.rng),
              err |-> "ok"]
        ELSE IF sd.err # "ok"
        THEN [self |-> SetAttr(o3, "random_state_", sd.rng), err |-> sd.err]
        ELSE [self |-> SetAttr(SetAttr(o3, "components_", sd.val), "random_state_", sd.rng),
              err |-> "ok"]

\* Scseg._init_log_reg_vars
_init_log_reg_vars(o) ==
    SetAttr(o, "reg_weights_",
            IF o.reg_weights = None THEN <<-Unit, Unit>> ELSE o.reg_weights)

\* get_document_length: the number of stored entries of every document
get_document_length(X) == V([d \in 1..Len(X) |-> Cardinality(Ids(X[d]))])

\* Scseg._e_step with one in-process job: a single slice holds every document
_e_step(o, X, y, cal_sstats, random_init) ==
    _update_doc_distribution(X, y, o["exp_dirichlet_component_"], o["doc_topic_prior_"],
        IF hasattr(o, "reg_weights_") THEN o["reg_weights_"] ELSE None,
        o["max_dist_"], o.max_doc_update_iter, o.mean_change_tol, cal_sstats,
        IF random_init THEN <<o["random_state_"]>> ELSE None)

\* ------------------------------------------------------------------ M-step
\* a variant of the batch update that adds to the old components_
BatchUpdateInPlace(components, topic_word_prior, suff_stats) ==
    V([k \in 1..Len(suff_stats) |->
        V([w \in 1..Len(suff_stats[k]) |->
            components[k][w] + topic_word_prior + suff_stats[k][w]])])

\* batch update: self.components_ = self.topic_word_prior_ + suff_stats
BatchUpdate(components, topic_word_prior, suff_stats) ==
    V([k \in 1..Len(suff_stats) |->
        V([w \in 1..Len(suff_stats[k]) |-> topic_word_prior + suff_stats[k][w]])])

\* weight = np.power(self.learning_offset + self.n_batch_iter_, -self.learning_decay)
LearningWeight(learning_offset, n_batch_iter, learning_decay) ==
    IF learning_decay >= 0
    THEN Div(Unit, Power(learning_offset + n_batch_iter, learning_decay))
    ELSE Unit * Power(learning_offset + n_batch_iter, -learning_decay)

\* a variant of doc_ratio with the quotient inverted
DocRatioInverted(total_samples, n_docs) == Div(n_docs * Unit, total_samples)

\* doc_ratio = float(total_samples) / X.shape[0]
DocRatio(total_samples, n_docs) == Div(total_samples * Unit, n_docs)

\* a variant of the online update that does not scale the old components_ down
OnlineUpdateWithoutDecay(components, topic_word_prior, suff_stats, weight, doc_ratio) ==
    V([k \in 1..Len(components) |->
        V([w \in 1..Len(components[k]) |->
            components[k][w]
            + Mul(weight, topic_word_prior + Mul(doc_ratio, suff_stats[k][w]))])])

\* online update: components_ *= (1 - weight);
\* components_ += weight * (topic_word_prior_ + doc_ratio * suff_stats)
OnlineUpdate(components, topic_word_prior, suff_stats, weight, doc_ratio) ==
    V([k \in 1..Len(components) |->
        V([w \in 1..Len(components[k]) |->
            Mul(components[k][w], Unit - weight)
            + Mul(weight, topic_word_prior + Mul(doc_ratio, suff_stats[k][w]))])])

\* the gaps of the batch that enter the regression: inside the document's
\* gap count and not above max_dist
RegPoints(l, dists, max_dist) ==
    {<<d, i>> \in (1..Len(dists)) \X (1..NCols(dists)) :
        i <= l[d] - 1 /\ dists[d][i] <= max_dist}

\* the ways scipy's minimize ends: it meets its tolerance, or it stops short
\* of it (line search failure, iteration limit) before or after it has moved
OptimizerFailures == {"failed_at_start", "failed_after_step"}
OptimizerOutcomes == {"converged"} \cup OptimizerFailures

\* the iterate of the optimizer: the start vector moved along the mean
\* residual of the sigmoid prediction
MinimizeStep(x0, l, dists, reg_targets, max_dist) ==
    LET pts == RegPoints(l, dists, max_dist)
        res == [pt \in pts |->
                   reg_targets[pt[1]][pt[2]]
                   - Sigmoid(dists[pt[1]][pt[2]] * x0[2] + x0[1])]
        resg == [pt \in pts |-> res[pt] * dists[pt[1]][pt[2]]]
    IN  IF pts = {} THEN x0
        ELSE << x0[1] + Div(SumOver(res, pts), Cardinality(pts)),
                x0[2] + Div(SumOver(resg, pts), Cardinality(pts)) >>

\* minimize(objective, self.reg_weights_, args=(l, dists, reg_targets, max_dist)):
\* the OptimizeResult; x is the iterate the optimizer has reached when it
\* ends, success tells whether it met its tolerance
Minimize(x0, l, dists, reg_targets, max_dist, outcome) ==
    [x |-> IF outcome = "failed_at_start" THEN x0
           ELSE MinimizeStep(x0, l, dists, reg_targets, max_dist),
     success |-> outcome = "converged"]

\* the M-step on components_: batch or online update from suff_stats
UpdateComponents(o, suff_stats, weight, doc_ratio, batch_update) ==
    SetAttr(o, "components_",
            IF batch_update
            THEN BatchUpdate(o["components_"], o["topic_word_prior_"], suff_stats)
            ELSE OnlineUpdate(o["components_"], o["topic_word_prior_"], suff_stats,
                              weight, doc_ratio))

\* `if hasattr(self, "reg_weights_") and y is not None and not self.no_regression`
RegressionRuns(o, y) == hasattr(o, "reg_weights_") /\ y # None /\ ~o.no_regression

\* a variant of the regression refit that starts the optimizer from the
\* initial weights in every step
UpdateRegWeightsFromInitial(o, y, l, dist_targets, outcome) ==
    IF RegressionRuns(o, y)
    THEN SetAttr(o, "reg_weights_",
                 Minimize(_init_log_reg_vars(o)["reg_weights_"], l, y, dist_targets,
                          o["max_dist_"], outcome).x)
    ELSE o

\* the regression refit of the M-step: self.reg_weights_ = ores.x
UpdateRegWeights(o, y, l, dist_targets, outcome) ==
    IF RegressionRuns(o, y)
    THEN SetAttr(o, "reg_weights_",
                 Minimize(o["reg_weights_"], l, y, dist_targets, o["max_dist_"], outcome).x)
    ELSE o

\* exp_dirichlet_component_ recomputed from components_ at the end of the step
UpdateExpDirichlet(o, y) ==
    SetAttr(o, "exp_dirichlet_component_",
            IF y = None
            THEN NpExpMat(_dirichlet_expectation_2d(o["components_"]))
            ELSE _dirichlet_expectation_2d(o["components_"]))

\* a variant of the M-step that recomputes exp_dirichlet_component_ before
\* it updates components_
MStepStaleExpectation(o, e, y, l, weight, doc_ratio, batch_update, outcome) ==
    IF e.err # "ok"
    THEN [self |-> SetAttr(o, "random_state_", e.rng[1]), err |-> e.err,
          suff_stats |-> None, doc_topic_distr |-> None, weight |-> 0, doc_ratio |-> 0,
          ores |-> None]
    ELSE [self |-> SetAttr(
                       UpdateRegWeights(
                           UpdateComponents(
                               UpdateExpDirichlet(SetAttr(o, "random_state_", e.rng[1]), y),
                               e.suff_stats, weight, doc_ratio, batch_update),
                           y, l, e.dist_targets, outcome),
                       "n_batch_iter_", o["n_batch_iter_"] + 1),
          err |-> "ok", suff_stats |-> e.suff_stats,
          doc_topic_distr |-> e.doc_topic_distr,
          ores |-> IF RegressionRuns(o, y) THEN <<outcome = "converged">> ELSE None,
          weight |-> IF batch_update THEN 0 ELSE weight,
          doc_ratio |-> IF batch_update THEN 0 ELSE doc_ratio]

\* the M-step of _em_step on the result e of its E-step
MStep(o, e, y, l, weight, doc_ratio, batch_update, outcome) ==
    IF e.err # "ok"
    THEN [self |-> SetAttr(o, "random_state_", e.rng[1]), err |-> e.err,
          suff_stats |-> None, doc_topic_distr |-> None, weight |-> 0, doc_ratio |-> 0,
          ores |-> None]
    ELSE [self |-> SetAttr(
                       UpdateExpDirichlet(
                           UpdateRegWeights(
                               UpdateComponents(SetAttr(o, "random_state_", e.rng[1]),
                                                e.suff_stats, weight, doc_ratio,
                                                batch_update),
                               y, l, e.dist_targets, outcome),
                           y),
                       "n_batch_iter_", o["n_batch_iter_"] + 1),
          err |-> "ok", suff_stats |-> e.suff_stats,
          doc_topic_distr |-> e.doc_topic_distr,
          ores |-> IF RegressionRuns(o, y) THEN <<outcome = "converged">> ELSE None,
          weight |-> IF batch_update THEN 0 ELSE weight,
          doc_ratio |-> IF batch_update THEN 0 ELSE doc_ratio]

\* Scseg._em_step: the object after the step, the error raised, and the
\* step's locals (doc_topic_distr is the one its E-step returned, ores the
\* success flag of its minimize call when it made one); outcome is the way
\* that minimize call ends
_em_step(o, X, y, l, total_samples, batch_update, outcome) ==
    MStep(o, _e_step(o, X, y, TRUE, TRUE), y, l,
          LearningWeight(o.learning_offset, o["n_batch_iter_"], o.learning_decay),
          DocRatio(total_samples, Len(X)), batch_update, outcome)

\* --------------------------------------------------- likelihood and bound
\* the plain-LDA term of one document: np.dot(cnts, logsumexp(temp, axis=0))
LdaDocLikelihood(cnts, expected_log_doc_topic_d, dirichlet_component) ==
    SumOver([w \in Ids(cnts) |->
                cnts[w] * NpLog(SumSeq(V([k \in 1..Len(expected_log_doc_topic_d) |->
                    Mul(NpExp(expected_log_doc_topic_d[k]),
                        NpExp(dirichlet_component[k][w]))])))],
            Ids(cnts))

\* _forward(..., 1): the log-likelihood the forward recursion accumulates
ForwardLikelihood(cnts_seq, theta, beta, p) ==
    LET L == Len(cnts_seq)
        fwd == _forward(theta, beta, p, L)
        mix(t) == IF t = 1
                  THEN SumSeq(V([k \in 1..Len(theta) |-> Mul(theta[k], beta[1][k])]))
                  ELSE SumSeq(V([k \in 1..Len(theta) |->
                          Mul(Mul(p[t - 1], theta[k])
                              + Mul(Unit - p[t - 1],
                                    (fwd[t - 1][k][1] + fwd[t - 1][k][2]) \div Unit),
                              beta[t][k])]))
    IN  SumSeq(V([t \in 1..L |-> cnts_seq[t] * NpLog(mix(t))]))

\* log_sig_arg of compute_likelihood:
\* y[idx_d, :(len(ids)-1)] * self.reg_weights_[1] + self.reg_weights_[0]
LikelihoodSigArg(y_d, n_ids, reg_weights) ==
    V([i \in 1..Min(n_ids - 1, Len(y_d)) |-> y_d[i] * reg_weights[2] + reg_weights[1]])

\* the Markov term of one document; the sigmoid argument is taken from the
\* gaps and self.reg_weights_ as they are
MarkovDocLikelihood(cnts, y_d, expected_log_doc_topic_d, dirichlet_component, reg_weights) ==
    LET ids_seq == SortedIds(Ids(cnts))
        L == Len(ids_seq)
        cnts_seq == V([t \in 1..L |-> cnts[ids_seq[t]]])
        beta == V([t \in 1..L |->
                    V([k \in 1..Len(dirichlet_component) |->
                        NpExp(dirichlet_component[k][ids_seq[t]])])])
        p == V([i \in 1..Min(L - 1, Len(y_d)) |->
                 Sigmoid(LikelihoodSigArg(y_d, L, reg_weights)[i])])
    IN  ForwardLikelihood(cnts_seq, NpExpRow(expected_log_doc_topic_d), beta, p)

\* Scseg.compute_likelihood; the Markov branch reads self.reg_weights_
compute_likelihood(o, X, y, doc_topic_distr) ==
    LET dirichlet_doc_topic == _dirichlet_expectation_2d(doc_topic_distr)
        dirichlet_component == _dirichlet_expectation_2d(o["components_"])
    IN  IF y # None /\ ~hasattr(o, "reg_weights_") /\ Len(X) > 0
        THEN [err |-> "AttributeError", val |-> 0]
        ELSE [err |-> "ok",
              val |-> SumSeq(V([d \in 1..Len(X) |->
                         IF y = None
                         THEN LdaDocLikelihood(X[d], dirichlet_doc_topic[d],
                                               dirichlet_component)
                         ELSE MarkovDocLikelihood(X[d], y[d], dirichlet_doc_topic[d],
                                                  dirichlet_component, o["reg_weights_"])]))]

\* _loglikelihood(prior, distr, dirichlet_distr, size) of _approx_bound
LogLikelihoodTerm(prior, distr, dirichlet_distr, size) ==
    SumSeq(V([r \in 1..Len(distr) |->
        SumSeq(V([c \in 1..Len(distr[r]) |->
            Mul(prior - distr[r][c], dirichlet_distr[r][c])
            + GammaLn(distr[r][c]) - GammaLn(prior)]))
        + GammaLn(prior * size) - GammaLn(SumSeq(distr[r]))]))

\* the bound from the data term lik and the two prior terms
BoundFrom(o, lik, doc_topic_distr, sub_sampling) ==
    LET score_theta == LogLikelihoodTerm(o["doc_topic_prior_"], doc_topic_distr,
                           _dirichlet_expectation_2d(doc_topic_distr), o["_n_components"])
        score_beta == LogLikelihoodTerm(o["topic_word_prior_"], o["components_"],
                          _dirichlet_expectation_2d(o["components_"]),
                          NCols(o["components_"]))
    IN  IF lik.err # "ok" THEN [err |-> lik.err, val |-> 0]
        ELSE [err |-> "ok",
              val |-> (IF sub_sampling
                       THEN Mul(lik.val + score_theta,
                                DocRatio(o.total_samples, Len(doc_topic_distr)))
                       ELSE lik.val + score_theta) + score_beta]

\* Scseg._approx_bound
_approx_bound(o, X, y, doc_topic_distr, sub_sampling) ==
    BoundFrom(o, compute_likelihood(o, X, y, doc_topic_distr), doc_topic_distr, sub_sampling)

\* X.sum()
WordCount(X) == SumSeq(V([d \in 1..Len(X) |-> SumSeq(X[d])]))

\* ---------------------------------------------- transform, score, perplexity
\* A call's outcome: exc is the exception raised ("none" when it returns),
\* val the value returned (or the sizes an error message names), esteps the
\* number of E-steps run, rng the generator state the call left (None when it
\* drew nothing)
Outcome(exc, val, esteps, rng) == [exc |-> exc, val |-> val, esteps |-> esteps, rng |-> rng]

\* a variant of transform that draws its initial doc_topic_distr
TransformRandomInitDrawn == TRUE

\* random_init of the E-step of _unnormalized_transform
TransformRandomInit == FALSE

\* the outcome of a call whose single E-step gave e
EStepOutcome(e) ==
    IF e.err # "ok" THEN Outcome(e.err, None, 1, e.rng)
    ELSE Outcome("none", e.doc_topic_distr, 1, e.rng)

\* a variant of _unnormalized_transform that validates X before it looks for
\* components_
_unnormalized_transform_validating_first(o, X, y) ==
    IF _check_non_neg_array(X) # "ok"
    THEN Outcome(_check_non_neg_array(X), None, 0, None)
    ELSE IF ~hasattr(o, "components_")
    THEN Outcome("NotFittedError", None, 0, None)
    ELSE IF NCols(X) # NCols(o["components_"])
    THEN Outcome("ValueError: dimensions", <<NCols(X), NCols(o["components_"])>>, 0, None)
    ELSE EStepOutcome(_e_step(o, X, y, FALSE, TransformRandomInit))

\* a variant of _unnormalized_transform whose dimension error names the size
\* of X only
_unnormalized_transform_naming_one_size(o, X, y) ==
    IF ~hasattr(o, "components_")
    THEN Outcome("NotFittedError", None, 0, None)
    ELSE IF _check_non_neg_array(X) # "ok"
    THEN Outcome(_check_non_neg_array(X), None, 0, None)
    ELSE IF NCols(X) # NCols(o["components_"])
    THEN Outcome("ValueError: dimensions", <<NCols(X)>>, 0, None)
    ELSE EStepOutcome(_e_step(o, X, y, FALSE, TransformRandomInit))

\* Scseg._unnormalized_transform
_unnormalized_transform(o, X, y) ==
    IF ~hasattr(o, "components_")
    THEN Outcome("NotFittedError", None, 0, None)
    ELSE IF _check_non_neg_array(X) # "ok"
    THEN Outcome(_check_non_neg_array(X), None, 0, None)
    ELSE IF NCols(X) # NCols(o["components_"])
    THEN Outcome("ValueError: dimensions", <<NCols(X), NCols(o["components_"])>>, 0, None)
    ELSE EStepOutcome(_e_step(o, X, y, FALSE, TransformRandomInit))

\* doc_topic_distr /= doc_topic_distr.sum(axis=1)[:, np.newaxis]
NormalizeRows(m) ==
    V([d \in 1..Len(m) |-> V([k \in 1..Len(m[d]) |-> Div(m[d][k] * Unit, SumSeq(m[d]))])])

\* the outcome u of _unnormalized_transform with its rows normalised
Normalized(u) ==
    IF u.exc # "none" THEN u ELSE [u EXCEPT !.val = NormalizeRows(@)]

\* Scseg.transform
transform(o, X, y) == Normalized(_unnormalized_transform(o, X, y))

\* the object after a call that drew from self.random_state_
AfterDraws(o, rng) == IF rng = None THEN o ELSE SetAttr(o, "random_state_", rng[1])

\* the outcome of a call that turns the transform outcome u into a value
\* computed from the bound b
BoundOutcome(u, b, val) ==
    IF u.exc # "none" THEN u
    ELSE IF b.err # "ok" THEN [u EXCEPT !.exc = b.err, !.val = None]
    ELSE [u EXCEPT !.val = val]

\* score = self._approx_bound(X, y, doc_topic_distr, sub_sampling=False)
ScoreOf(u, b) == BoundOutcome(u, b, b.val)

\* the bound of X under the doc_topic_distr the transform outcome u holds
BoundAfter(o, X, y, u, sub_sampling) ==
    _approx_bound(AfterDraws(o, u.rng), X, y, u.val, sub_sampling)

\* doc_topic_distr = self._unnormalized_transform(X, y), then the bound
ScoreFrom(o, X, y, u) == ScoreOf(u, BoundAfter(o, X, y, u, FALSE))

\* Scseg.score
score(o, X, y) ==
    IF _check_non_neg_array(X) # "ok"
    THEN Outcome(_check_non_neg_array(X), None, 0, None)
    ELSE ScoreFrom(o, X, y, _unnormalized_transform(o, X, y))

\* word_cnt of _perplexity_precomp_distr
PerplexityWordCount(o, X, sub_sampling) ==
    IF sub_sampling
    THEN Mul(WordCount(X) * Unit, DocRatio(o.total_samples, Len(X)))
    ELSE WordCount(X) * Unit

\* np.exp(-1.0 * perword_bound)
PerplexityOf(u, b, word_cnt) == BoundOutcome(u, b, NpExp(-Div(b.val * Unit, word_cnt)))

\* the shape checks of a doc_topic_distr handed in, then the bound
PerplexityCheck(o, X, y, given, u, sub_sampling) ==
    IF u.exc # "none" THEN u
    ELSE IF given /\ Len(u.val) # Len(X)
    THEN Outcome("ValueError: samples", None, 0, None)
    ELSE IF given /\ NCols(u.val) # o["_n_components"]
    THEN Outcome("ValueError: topics", None, 0, None)
    ELSE PerplexityOf(u, BoundAfter(o, X, y, u, sub_sampling),
                      PerplexityWordCount(o, X, sub_sampling))

\* Scseg._perplexity_precomp_distr; doc_topic_distr is None or <<matrix>>
_perplexity_precomp_distr(o, X, y, doc_topic_distr, sub_sampling) ==
    IF ~hasattr(o, "components_")
    THEN Outcome("NotFittedError", None, 0, None)
    ELSE IF _check_non_neg_array(X) # "ok"
    THEN Outcome(_check_non_neg_array(X), None, 0, None)
    ELSE PerplexityCheck(o, X, y, doc_topic_distr # None,
                         IF doc_topic_distr = None THEN _unnormalized_transform(o, X, y)
                         ELSE Outcome("none", doc_topic_distr[1], 0, None),
                         sub_sampling)

\* Scseg.perplexity
perplexity(o, X, y, sub_sampling) == _perplexity_precomp_distr(o, X, y, None, sub_sampling)

\* ------------------------------------------------------------------ inputs
\* a count matrix without zero entries
DenseMatrix(n, nf) == V([d \in 1..n |-> V([w \in 1..nf |-> 1 + ((d + w) % 2)])])
\* a count matrix with zero entries whose last document has no active bin
SparseMatrix(n, nf) ==
    V([d \in 1..n |-> V([w \in 1..nf |-> IF d = n THEN 0 ELSE IF (d + w) % 2 = 0 THEN 2 ELSE 0])])
\* a matrix with a negative entry
NegativeMatrix(n, nf) ==
    V([d \in 1..n |-> V([w \in 1..nf |-> IF d = 1 /\ w = 1 THEN -1 ELSE 1])])

\* the gap matrix of X: gaps within max_dist in odd documents, beyond the
\* default max_dist in even ones
GapMatrix(X) == V([d \in 1..Len(X) |-> V([i \in 1..(NCols(X) - 1) |-> IF d % 2 = 1 THEN 1 ELSE 6])])

Input(X, y) == [X |-> X, y |-> y]
WithAndWithoutGaps(X) == {Input(X, None), Input(X, GapMatrix(X))}

\* the training sets handed to fit
FitInputs ==
    WithAndWithoutGaps(DenseMatrix(MaxDocs, 2))
    \cup WithAndWithoutGaps(SparseMatrix(2, 2))
    \cup {Input(NegativeMatrix(1, 2), None)}

\* the data handed to transform, score and perplexity
QueryInputs ==
    WithAndWithoutGaps(DenseMatrix(2, 2))
    \cup {Input(DenseMatrix(2, 3), None), Input(NegativeMatrix(1, 3), None)}

\* the constructor arguments the model is built with
ErrorParams ==
    {[DefaultParams EXCEPT !.n_components = 0],
     [DefaultParams EXCEPT !.n_components = 0, !.n_topics = <<2>>],
     [DefaultParams EXCEPT !.n_components = 0, !.n_topics = <<0>>],
     [DefaultParams EXCEPT !.n_topics = <<0>>],
     [DefaultParams EXCEPT !.total_samples = 0],
     [DefaultParams EXCEPT !.learning_offset = -1],
     [DefaultParams EXCEPT !.learning_method = "sgd"],
     [DefaultParams EXCEPT !.learning_method = "sgd", !.learning_offset = -1]}

\* the learning configurations: batch with one or two passes, online with
\* every batch size up to the corpus and with a constant or a decaying weight
LearningParams ==
    {[DefaultParams EXCEPT !.max_iter = mi] : mi \in {1, 2}}
    \cup {[DefaultParams EXCEPT !.learning_method = "online", !.batch_size = bs,
                                 !.learning_decay = ld, !.learning_offset = lo] :
             bs \in 1..MaxDocs, ld \in {0, 1}, lo \in {0, 1}}

OtherParams ==
    {[DefaultParams EXCEPT !.n_seeds = <<1>>],
     [DefaultParams EXCEPT !.evaluate_every = 1]}
    \cup {[DefaultParams EXCEPT !.max_doc_update_iter = it, !.mean_change_tol = tol] :
             it \in 0..2, tol \in {0, 1, Unit}}

\* the configurations of the models that are fit and queried
Params ==
    ErrorParams
    \cup {DefaultParams,
          [DefaultParams EXCEPT !.learning_method = "online"],
          [DefaultParams EXCEPT !.n_seeds = <<1>>]}

\* the configurations of the models that are trained repeatedly
TrainParams == LearningParams \cup OtherParams

\* ------------------------------------------------------------------- state
VARIABLES
    self,   \* the Scseg object: constructor arguments and fitted attributes
    twin,   \* a second object that repeats the running fit with batch updates
    pc,     \* position of the running call ("idle" between calls)
    call,   \* the running (or last) call: method and arguments
    loc,    \* the locals of fit and of its latest _em_step
    ret,    \* outcome of the last completed call
    prev,   \* <<outcome>> of the call before the last one when that was the
            \* same call (method and arguments) as the last one, else None
    log     \* the steps the running (or last) call has executed, in order

vars == <<self, twin, pc, call, loc, ret, prev, log>>

Pending == Outcome("pending", None, 0, None)
NoCall == [op |-> "none", X |-> <<>>, y |-> None]

FitLocals ==
    [i |-> 0, lo |-> 0, last_bound |-> None, dlens |-> <<>>, n_em |-> 0,
     batches |-> <<>>, unit_full |-> TRUE, batch_update |-> FALSE,
     suff_stats |-> None, doc_topic_distr |-> None, weight |-> 0, doc_ratio |-> 0,
     before |-> None, ores |-> None, passes |-> 0, checks |-> <<>>]

InitWith(params) ==
    /\ self \in params
    /\ twin = self
    /\ pc = "idle"
    /\ call = NoCall
    /\ loc = FitLocals
    /\ ret = Pending
    /\ prev = None
    /\ log = <<>>

Init == InitWith(Params)

\* a call returns or raises: the outcome is recorded and control goes back
\* to the caller
Return(out) ==
    /\ ret' = out
    /\ pc' = "idle"

\* a call starts; the outcome of the last call is kept when it was the same call
Enter(op, X, y) ==
    /\ pc = "idle"
    /\ call' = [op |-> op, X |-> X, y |-> y]
    /\ prev' = IF call = [op |-> op, X |-> X, y |-> y] THEN <<ret>> ELSE None

\* ------------------------------------------------------------- Scseg.fit
\* fit(X, y) is entered and runs self._check_params()
Fit(X, y) ==
    /\ Enter("fit", X, y)
    /\ LET c == _check_params(self)
       IN  /\ self' = c.self
           /\ log' = <<"_check_params">>
           /\ IF c.err # "ok"
              THEN Return(Outcome(c.err, None, 0, None))
              ELSE ret' = Pending /\ pc' = "check_array"
    /\ loc' = FitLocals
    /\ UNCHANGED twin

\* X = self._check_non_neg_array(X, ...)
FitCheckArray ==
    /\ pc = "check_array"
    /\ log' = Append(log, "_check_non_neg_array")
    /\ IF _check_non_neg_array(call.X) # "ok"
       THEN Return(Outcome(_check_non_neg_array(call.X), None, 0, None))
       ELSE ret' = Pending /\ pc' = "init"
    /\ UNCHANGED <<self, twin, call, loc, prev>>

\* the object when the EM loop is entered: exp_dirichlet_component_ from the
\* fresh components_, and the regression variables when y is given
FitPrepare(o, y) ==
    LET o1 == SetAttr(o, "exp_dirichlet_component_",
                  IF y = None
                  THEN NpExpMat(_dirichlet_expectation_2d(o["components_"]))
                  ELSE _dirichlet_expectation_2d(o["components_"]))
    IN  IF y # None THEN _init_log_reg_vars(o1) ELSE o1

\* fit after self._init_latent_vars returned or raised
FitInitWith(init) ==
    IF init.err # "ok"
    THEN /\ self' = init.self
         /\ Return(Outcome(init.err, None, 0, None))
         /\ UNCHANGED <<twin, loc>>
    ELSE /\ self' = FitPrepare(init.self, call.y)
         /\ twin' = self'
         /\ loc' = [loc EXCEPT !.dlens = IF call.y # None
                                         THEN get_document_length(call.X)
                                         ELSE None,
                                !.before = self'["components_"]]
         /\ ret' = Pending
         /\ pc' = IF self.max_iter > 0 THEN "em" ELSE "final"

\* self._init_latent_vars(n_features[, X]) and the set-up before the loop
FitInit ==
    /\ pc = "init"
    /\ log' = Append(log, "_init_latent_vars")
    /\ FitInitWith(_init_latent_vars(self, NCols(call.X), call.X, self.n_seeds # None))
    /\ UNCHANGED <<call, prev>>

\* gen_batches(n_samples, batch_size): the slice that starts at lo
BatchEnd(lo, n_samples, batch_size) == Min(lo + batch_size, n_samples)

\* the state after one _em_step on documents lo..hi gave r; the twin takes
\* its batch step t while every online step so far had unit weight and held
\* all documents
EmStepWith(lo, hi, r, t, unit_full) ==
    /\ self' = r.self
    /\ log' = log \o <<"_e_step">> \o (IF r.err = "ok" THEN <<"m_step">> ELSE <<>>)
    /\ twin' = IF unit_full THEN t.self ELSE twin
    /\ loc' = [loc EXCEPT !.lo = hi, !.n_em = @ + 1,
                           !.batches = Append(@, <<lo, hi>>),
                           !.unit_full = unit_full,
                           !.batch_update = self.learning_method # "online",
                           !.suff_stats = r.suff_stats,
                           !.doc_topic_distr = r.doc_topic_distr,
                           !.ores = r.ores,
                           !.passes = IF r.err = "ok" /\ hi >= Len(call.X) THEN @ + 1 ELSE @,
                           !.weight = r.weight, !.doc_ratio = r.doc_ratio,
                           !.before = self["components_"]]
    /\ IF r.err # "ok" THEN Return(Outcome(r.err, None, 0, None))
       ELSE /\ ret' = Pending
            /\ pc' = IF hi < Len(call.X) THEN "em" ELSE "iter_end"

\* one _em_step on documents lo..hi
EmStepOn(lo, hi, r, outcome) ==
    EmStepWith(lo, hi, r,
               _em_step(twin, call.X, call.y, loc.dlens, Len(call.X), TRUE, outcome),
               /\ loc.unit_full
               /\ self.learning_method = "online"
               /\ r.err = "ok"
               /\ hi - lo = Len(call.X)
               /\ r.weight = Unit)

\* self._em_step on the documents lo..hi of X, y and the document lengths
EmStepSlice(lo, hi, outcome) ==
    EmStepOn(lo, hi,
             _em_step(self, RowSlice(call.X, lo, hi),
                      IF call.y # None THEN RowSlice(call.y, lo, hi) ELSE None,
                      IF loc.dlens # None THEN RowSlice(loc.dlens, lo, hi) ELSE None,
                      Len(call.X), self.learning_method # "online", outcome),
             outcome)

\* one _em_step of the loop, on a mini-batch (online) or on all documents,
\* whose minimize call (if it makes one) ends with outcome
EmStepUnder(outcome) ==
    IF self.learning_method = "online"
    THEN EmStepSlice(loc.lo, BatchEnd(loc.lo, Len(call.X), self.batch_size), outcome)
    ELSE EmStepSlice(0, Len(call.X), outcome)

\* one _em_step of the loop in which the optimizer (if called) converges
EmStep ==
    /\ pc = "em"
    /\ EmStepUnder("converged")
    /\ UNCHANGED <<call, prev>>

\* one _em_step of the loop in which the optimizer is called and fails
EmStepOptimizerFails ==
    /\ pc = "em"
    /\ \E outcome \in OptimizerFailures : EmStepUnder(outcome) /\ loc'.ores = <<FALSE>>
    /\ UNCHANGED <<call, prev>>

\* the perplexity of the training set from the doc_topic_distr of E-step e
TrainingPerplexityOf(o, X, y, e) ==
    IF e.err # "ok" THEN Outcome(e.err, None, 1, None)
    ELSE [_perplexity_precomp_distr(o, X, y, <<e.doc_topic_distr>>, FALSE)
            EXCEPT !.esteps = 1, !.rng = None]

\* the perplexity of the training set from a fresh E-step without statistics
TrainingPerplexity(o, X, y) ==
    TrainingPerplexityOf(o, X, y, _e_step(o, X, y, FALSE, FALSE))

\* a variant of the test that also holds when there is no previous bound
BoundConvergedAtFirstCheck(last_bound, bound, perp_tol) ==
    last_bound = None \/ Abs(last_bound[1] - bound) < perp_tol

\* `if last_bound and abs(last_bound - bound) < self.perp_tol`
BoundConverged(last_bound, bound, perp_tol) ==
    /\ last_bound # None
    /\ last_bound[1] # 0
    /\ Abs(last_bound[1] - bound) < perp_tol

\* the end of one pass with the training perplexity b (read only when due)
IterEndWith(due, b) ==
    IF due /\ b.exc # "none"
    THEN /\ Return(Outcome(b.exc, None, 0, None))
         /\ log' = Append(log, "_e_step")
         /\ UNCHANGED <<self, loc>>
    ELSE IF due /\ BoundConverged(loc.last_bound, b.val, self.perp_tol)
    THEN /\ pc' = "final"
         /\ ret' = Pending
         /\ log' = log \o <<"_e_step", "perplexity">>
         /\ loc' = [loc EXCEPT !.checks = Append(@, b.val)]
         /\ UNCHANGED self
    ELSE /\ self' = SetAttr(self, "n_iter_", self["n_iter_"] + 1)
         /\ loc' = [loc EXCEPT !.i = @ + 1, !.lo = 0, !.batches = <<>>,
                                !.last_bound = IF due THEN <<b.val>> ELSE @,
                                !.checks = IF due THEN Append(@, b.val) ELSE @]
         /\ log' = IF due THEN log \o <<"_e_step", "perplexity">> ELSE log
         /\ ret' = Pending
         /\ pc' = IF loc.i + 1 < self.max_iter THEN "em" ELSE "final"

\* the end of one pass of `for i in xrange(max_iter)`: the perplexity check
\* when it is due, then self.n_iter_ += 1
IterEnd ==
    /\ pc = "iter_end"
    /\ IterEndWith(self.evaluate_every > 0 /\ (loc.i + 1) % self.evaluate_every = 0,
                   TrainingPerplexity(self, call.X, call.y))
    /\ UNCHANGED <<twin, call, prev>>

\* fit returns self with bound_ set, or raises what the perplexity raised
FitFinalWith(b) ==
    IF b.exc # "none"
    THEN Return(Outcome(b.exc, None, 0, None)) /\ UNCHANGED self
    ELSE /\ self' = SetAttr(self, "bound_", b.val)
         /\ Return(Outcome("none", None, 0, None))

\* after the loop: the final perplexity of the training set; fit returns self
FitFinal ==
    /\ pc = "final"
    /\ log' = log \o <<"_e_step", "perplexity">>
    /\ FitFinalWith(TrainingPerplexity(self, call.X, call.y))
    /\ UNCHANGED <<twin, call, loc, prev>>

\* ------------------------------------------- transform, score, perplexity
\* a call that runs to its end in one step
Query(op, X, y, out) ==
    /\ Enter(op, X, y)
    /\ self' = AfterDraws(self, out.rng)
    /\ Return(out)
    /\ log' = IF out.esteps > 0 THEN <<"_e_step">> ELSE <<>>
    /\ UNCHANGED <<twin, loc>>

Transform(X, y) == Query("transform", X, y, transform(self, X, y))
Score(X, y) == Query("score", X, y, score(self, X, y))
Perplexity(X, y) == Query("perplexity", X, y, perplexity(self, X, y, FALSE))

Next ==
    \/ \E in \in FitInputs : Fit(in.X, in.y)
    \/ FitCheckArray
    \/ FitInit
    \/ EmStep
    \/ IterEnd
    \/ FitFinal
    \/ \E in \in QueryInputs : Transform(in.X, in.y)
    \/ \E in \in QueryInputs : Score(in.X, in.y)
    \/ \E in \in QueryInputs : Perplexity(in.X, in.y)

Spec == Init /\ [][Next]_vars

\* training alone: repeated fit calls on one model, over every learning
\* configuration
TrainInit == InitWith(TrainParams)

TrainNext ==
    \/ \E in \in FitInputs : Fit(in.X, in.y)
    \/ FitCheckArray
    \/ FitInit
    \/ EmStep
    \/ IterEnd
    \/ FitFinal

TrainSpec == TrainInit /\ [][TrainNext]_vars

\* the configurations _check_params accepts whatever the priors and the decay
\* are: default priors or zero ones, a decaying learning rate or a growing one
PriorParams ==
    {[DefaultParams EXCEPT !.doc_topic_prior = dp, !.topic_word_prior = tp] :
        dp \in {None, <<0>>}, tp \in {None, <<0>>}}
    \cup {[DefaultParams EXCEPT !.learning_method = "online", !.doc_topic_prior = dp,
                                 !.topic_word_prior = tp, !.learning_decay = ld] :
             dp \in {None, <<0>>}, tp \in {None, <<0>>}, ld \in {-1, 1}}

\* fit and transform over the configurations of the priors
PriorInit == InitWith(PriorParams)

PriorNext ==
    \/ \E in \in FitInputs : Fit(in.X, in.y)
    \/ FitCheckArray
    \/ FitInit
    \/ EmStep
    \/ IterEnd
    \/ FitFinal
    \/ \E in \in QueryInputs : Transform(in.X, in.y)

PriorSpec == PriorInit /\ [][PriorNext]_vars

\* the configurations of the perplexity monitor: no check, a check after every
\* pass or every second pass, and tolerances from none to one that always holds
MonitorParams ==
    {[DefaultParams EXCEPT !.max_iter = mi, !.evaluate_every = ee, !.perp_tol = pt,
                           !.learning_method = lm] :
        mi \in {1, 2, 4}, ee \in {-1, 0, 1, 2}, pt \in {0, 2, Unit}, lm \in {"batch", "online"}}

\* fit with the perplexity monitor
MonitorInit == InitWith(MonitorParams)

MonitorNext ==
    \/ \E in \in FitInputs : Fit(in.X, in.y)
    \/ FitCheckArray
    \/ FitInit
    \/ EmStep
    \/ IterEnd
    \/ FitFinal

MonitorSpec == MonitorInit /\ [][MonitorNext]_vars

\* the configurations of the regression refit: on, off, and on mini-batches
RegressionParams ==
    {DefaultParams,
     [DefaultParams EXCEPT !.no_regression = TRUE],
     [DefaultParams EXCEPT !.no_regression = TRUE, !.reg_weights = <<0, Unit>>],
     [DefaultParams EXCEPT !.learning_method = "online", !.batch_size = 1, !.max_iter = 1]}

\* fit with an optimizer that may fail in any of its calls
RegressionInit == InitWith(RegressionParams)

RegressionNext ==
    \/ \E in \in FitInputs : Fit(in.X, in.y)
    \/ FitCheckArray
    \/ FitInit
    \/ EmStep
    \/ EmStepOptimizerFails
    \/ IterEnd
    \/ FitFinal

RegressionSpec == RegressionInit /\ [][RegressionNext]_vars

\* ------------------------------------------- the E-step across its workers
\* Scseg._e_step hands one _update_doc_distribution call per slice of
\* gen_even_slices(n_samples, n_jobs) to joblib's Parallel and merges what
\* the calls return.  ParallelSpec runs one such call step by step: the
\* dispatch, each worker's draw of its initial doc_topic_distr and its
\* document loop in any order the backend allows, the merge, and the rest of
\* the caller (_em_step's M-step, or the return of the query).

\* effective_n_jobs(self.n_jobs): None means one job
effective_n_jobs(n_jobs) == IF n_jobs = None THEN 1 ELSE n_jobs[1]

\* a variant of gen_even_slices that gives every pack n // n_packs rows
RECURSIVE EvenSlicesWithoutRemainder(_, _, _, _)
EvenSlicesWithoutRemainder(n, n_packs, pack_num, start) ==
    IF pack_num >= n_packs THEN <<>>
    ELSE IF n \div n_packs > 0
    THEN <<[lo |-> start, hi |-> start + (n \div n_packs)]>>
         \o EvenSlicesWithoutRemainder(n, n_packs, pack_num + 1, start + (n \div n_packs))
    ELSE EvenSlicesWithoutRemainder(n, n_packs, pack_num + 1, start)

\* gen_even_slices(n, n_packs) from pack pack_num on: the first n % n_packs
\* packs hold one row more, a pack without rows is not yielded; a slice is
\* [lo, hi) with 0-based bounds
RECURSIVE EvenSlices(_, _, _, _)
EvenSlices(n, n_packs, pack_num, start) ==
    IF pack_num >= n_packs THEN <<>>
    ELSE LET this_n == (n \div n_packs) + (IF pack_num < n % n_packs THEN 1 ELSE 0)
         IN  IF this_n > 0
             THEN <<[lo |-> start, hi |-> start + this_n]>>
                  \o EvenSlices(n, n_packs, pack_num + 1, start + this_n)
             ELSE EvenSlices(n, n_packs, pack_num + 1, start)

gen_even_slices(n, n_packs) == EvenSlices(n, n_packs, 0, 0)

\* the ways joblib runs the tasks: one after the other in the calling
\* thread (one job), in threads of the calling process, or in worker
\* processes that receive pickled copies of the arguments
Backends(n_jobs) == IF n_jobs = 1 THEN {"sequential"} ELSE {"threading", "loky"}
InProcess(backend) == backend # "loky"

\* the arguments of delayed(_update_doc_distribution) taken from self
WorkerArgs(o) ==
    [exp_topic_word_distr |-> o["exp_dirichlet_component_"],
     doc_topic_prior |-> o["doc_topic_prior_"],
     reg_weights |-> IF hasattr(o, "reg_weights_") THEN o["reg_weights_"] ELSE None,
     max_dist |-> o["max_dist_"],
     max_iters |-> o.max_doc_update_iter,
     mean_change_tol |-> o.mean_change_tol,
     random_state |-> o["random_state_"]]

\* _update_doc_distribution after the initial doc_topic_distr was made
UpdateDocDistributionFrom(X, y, a, cal_sstats, init) ==
    IF y = None
    THEN LdaFrom(X, a.exp_topic_word_distr, a.doc_topic_prior, a.max_iters,
                 a.mean_change_tol, cal_sstats, init)
    ELSE MarkovFrom(X, y, a.exp_topic_word_distr, a.doc_topic_prior, a.reg_weights,
                    a.max_dist, a.max_iters, a.mean_change_tol, cal_sstats, init)

\* a task of the Parallel call: its slice, its position, the initial
\* doc_topic_distr it made and what it returned
Task(slice) == [slice |-> slice, at |-> "queued", init |-> None, result |-> None]

EStepLocals ==
    [backend |-> "sequential", tasks |-> <<>>, pickled |-> None, merged |-> None]

\* np.vstack of the tasks' first outputs
RECURSIVE VStack(_, _)
VStack(tasks, field) ==
    IF tasks = <<>> THEN <<>>
    ELSE Head(tasks).result[field] \o VStack(Tail(tasks), field)

\* suff_stats = np.zeros_like(self.components_); suff_stats += sstats
RECURSIVE SumSstats(_, _)
SumSstats(acc, tasks) ==
    IF tasks = <<>> THEN acc
    ELSE SumSstats(MatAdd(acc, Head(tasks).result.suff_stats), Tail(tasks))

\* the merge of _e_step; the plain path returns no regression targets
MergeResults(o, tasks, cal_sstats) ==
    [doc_topic_distr |-> VStack(tasks, "doc_topic_distr"),
     suff_stats |-> IF cal_sstats
                    THEN SumSstats(Zeros(Len(o["components_"]), NCols(o["components_"])), tasks)
                    ELSE None,
     dist_targets |-> IF cal_sstats /\ tasks[1].result.dist_targets # None
                      THEN VStack(tasks, "dist_targets")
                      ELSE None,
     rng |-> <<o["random_state_"]>>,
     err |-> "ok"]

\* the models whose E-step is run: fit up to the EM loop with every number
\* of jobs
ParallelParams ==
    {[DefaultParams EXCEPT !.n_jobs = nj, !.max_doc_update_iter = it] :
        nj \in {None, <<2>>, <<3>>}, it \in {1, 3}}

ParallelInputs ==
    WithAndWithoutGaps(DenseMatrix(MaxDocs, 2)) \cup WithAndWithoutGaps(SparseMatrix(2, 2))

\* _e_step is called with cal_sstats and random_init both True (_em_step)
\* or both False (_unnormalized_transform, the training perplexity)
EStepCalls ==
    {[op |-> "_e_step", X |-> in.X, y |-> in.y, cal_sstats |-> b, random_init |-> b] :
        in \in ParallelInputs, b \in BOOLEAN}

ParallelInit ==
    /\ call \in EStepCalls
    /\ \E p \in ParallelParams :
          self = FitPrepare(_init_latent_vars(_check_params(p).self, NCols(call.X),
                                              call.X, FALSE).self, call.y)
    /\ twin = None
    /\ pc = "dispatch"
    /\ loc = EStepLocals
    /\ ret = Pending
    /\ prev = None
    /\ log = <<>>

\* parallel(delayed(...) for idx_slice in gen_even_slices(X.shape[0], n_jobs))
Dispatch ==
    /\ pc = "dispatch"
    /\ \E backend \in Backends(effective_n_jobs(self.n_jobs)) :
          loc' = [loc EXCEPT
                    !.backend = backend,
                    !.pickled = WorkerArgs(self),
                    !.tasks = LET s == gen_even_slices(Len(call.X), effective_n_jobs(self.n_jobs))
                              IN  [i \in 1..Len(s) |-> Task(s[i])]]
    /\ pc' = "workers"
    /\ log' = Append(log, <<"dispatch">>)
    /\ UNCHANGED <<self, twin, call, ret, prev>>

\* what worker i reads its arguments from: the objects of the scheduler in
\* its own process, the pickled copies in a worker process
ArgsSeenBy(i) == IF InProcess(loc.backend) THEN WorkerArgs(self) ELSE loc.pickled

\* task i may run: in the calling thread the tasks run in order
MayRun(i) ==
    /\ pc = "workers"
    /\ i \in 1..Len(loc.tasks)
    /\ loc.backend = "sequential" => \A j \in 1..(i - 1) : loc.tasks[j].at = "returned"

\* worker i makes its initial doc_topic_distr: random_state.gamma(...) draws
\* from the generator it was given and advances it, np.ones otherwise
WorkerDrawOf(i, init) ==
    /\ loc' = [loc EXCEPT !.tasks[i].at = "drawn", !.tasks[i].init = init]
    /\ self' = IF call.random_init /\ InProcess(loc.backend)
               THEN SetAttr(self, "random_state_", init.rng[1])
               ELSE self
    /\ log' = Append(log, <<"draw", i>>)

WorkerDraw(i) ==
    /\ MayRun(i)
    /\ loc.tasks[i].at = "queued"
    /\ WorkerDrawOf(i, InitDocTopic(IF call.random_init
                                    THEN <<ArgsSeenBy(i).random_state>> ELSE None,
                                    loc.tasks[i].slice.hi - loc.tasks[i].slice.lo,
                                    Len(ArgsSeenBy(i).exp_topic_word_distr)))
    /\ UNCHANGED <<twin, pc, call, ret, prev>>

\* the slice [lo, hi) of the documents and of their gaps
SliceOf(m, slice) == IF m = None THEN None ELSE RowSlice(m, slice.lo, slice.hi)

\* worker i runs the document loop on its slice and returns
WorkerLoop(i) ==
    /\ MayRun(i)
    /\ loc.tasks[i].at = "drawn"
    /\ loc' = [loc EXCEPT !.tasks[i].at = "returned",
                           !.tasks[i].result =
                               UpdateDocDistributionFrom(SliceOf(call.X, loc.tasks[i].slice),
                                   SliceOf(call.y, loc.tasks[i].slice), ArgsSeenBy(i),
                                   call.cal_sstats, loc.tasks[i].init)]
    /\ log' = Append(log, <<"return", i>>)
    /\ UNCHANGED <<self, twin, pc, call, ret, prev>>

AllReturned == \A i \in 1..Len(loc.tasks) : loc.tasks[i].at = "returned"
Raised == {i \in 1..Len(loc.tasks) : loc.tasks[i].result.err # "ok"}

\* the parallel call returns the list of results, or raises what a task
\* raised; the results are merged
Merge ==
    /\ pc = "workers"
    /\ AllReturned
    /\ IF Raised # {}
       THEN /\ ret' = Outcome(loc.tasks[CHOOSE i \in Raised : \A j \in Raised : i <= j].result.err,
                              None, 1, None)
            /\ pc' = "raised"
            /\ UNCHANGED loc
       ELSE /\ loc' = [loc EXCEPT !.merged = MergeResults(self, loc.tasks, call.cal_sstats)]
            /\ pc' = "merged"
            /\ UNCHANGED ret
    /\ log' = Append(log, <<"merge">>)
    /\ UNCHANGED <<self, twin, call, prev>>

\* the M-step of _em_step on the merged result (one batch step)
MStepAfterMerge ==
    /\ pc = "merged"
    /\ call.cal_sstats
    /\ self' = MStep(self, loc.merged, call.y,
                     IF call.y # None THEN get_document_length(call.X) ELSE None,
                     0, 0, TRUE, "converged").self
    /\ pc' = "done"
    /\ log' = Append(log, <<"m_step">>)
    /\ UNCHANGED <<twin, call, loc, ret, prev>>

\* the query (or the perplexity check) gets doc_topic_distr back
EStepReturn ==
    /\ pc = "merged"
    /\ ~call.cal_sstats
    /\ ret' = EStepOutcome(loc.merged)
    /\ pc' = "done"
    /\ log' = Append(log, <<"return">>)
    /\ UNCHANGED <<self, twin, call, loc, prev>>

ParallelNext ==
    \/ Dispatch
    \/ \E i \in 1..MaxDocs : WorkerDraw(i)
    \/ \E i \in 1..MaxDocs : WorkerLoop(i)
    \/ Merge
    \/ MStepAfterMerge
    \/ EStepReturn

ParallelSpec == ParallelInit /\ [][ParallelNext]_vars

\* ------------------------------------------- fits of a reconfigured model
\* the constructor arguments a fitted model is given between its fits
\* (BaseEstimator.set_params, or an assignment to the public attribute)
RefitParams ==
    {[DefaultParams EXCEPT !.max_iter = 1, !.n_components = k] : k \in {0, 2, 3}}
    \cup {[DefaultParams EXCEPT !.max_iter = 1, !.learning_method = "sgd"]}

\* the training sets of these fits and the data they are scored on
RefitInputs ==
    WithAndWithoutGaps(DenseMatrix(2, 2)) \cup {Input(NegativeMatrix(1, 2), None)}
RefitQueries == WithAndWithoutGaps(DenseMatrix(2, 2))

\* set_params(**p): the constructor arguments are replaced, the attributes
\* of the last fit stay
SetParams(p) ==
    /\ pc = "idle"
    /\ self' = [a \in DOMAIN self |-> IF a \in DOMAIN p THEN p[a] ELSE self[a]]
    /\ self' # self
    /\ UNCHANGED <<twin, pc, call, loc, ret, prev, log>>

RefitInit == InitWith(RefitParams)

RefitNext ==
    \/ \E p \in RefitParams : SetParams(p)
    \/ \E in \in RefitInputs : Fit(in.X, in.y)
    \/ FitCheckArray
    \/ FitInit
    \/ EmStep
    \/ IterEnd
    \/ FitFinal
    \/ \E in \in RefitQueries : Score(in.X, in.y)

RefitSpec == RefitInit /\ [][RefitNext]_vars

\* ============================================================ countmatrix.py
\* the largest coordinate of the chromosomes, regions and fragments that are
\* counted
MaxPos == 6

\* `genomesize[chrom]//binsize + 1 if (genomesize[chrom] % binsize > 0) else 0`
NBins(length, binsize) == IF length % binsize > 0 THEN length \div binsize + 1 ELSE 0

\* the Interval(c, s, e) list of one chromosome: starts, ends and chr_ zipped
ChromIntervals(chrom, length, binsize) ==
    V([i \in 1..NBins(length, binsize) |->
          [chrom |-> chrom, start |-> (i - 1) * binsize, end |-> Min(i * binsize, length)]])

\* make_counting_bins: bed_content over the chromosomes of the BAM header,
\* whose lengths are given in header order
RECURSIVE make_counting_bins(_, _, _)
make_counting_bins(lengths, binsize, chrom) ==
    IF chrom > Len(lengths) THEN <<>>
    ELSE ChromIntervals(chrom, lengths[chrom], binsize)
             \o make_counting_bins(lengths, binsize, chrom + 1)

\* the local template_length of sparse_count_reads_in_regions
template_length == 3000

\* the two alignments of a properly paired fragment [s, e) with reads of
\* length r, the left mate first; read2_left tells which mate is read 2
PairedReads(s, e, r, read2_left, mapping_quality) ==
    << [reference_start |-> s, reference_length |-> r, template_length |-> e - s,
        next_reference_start |-> e - r, is_reverse |-> FALSE, is_paired |-> TRUE,
        is_proper_pair |-> TRUE, is_read1 |-> ~read2_left, is_read2 |-> read2_left,
        mapping_quality |-> mapping_quality, bar |-> "AAAC"],
       [reference_start |-> e - r, reference_length |-> r, template_length |-> s - e,
        next_reference_start |-> s, is_reverse |-> TRUE, is_paired |-> TRUE,
        is_proper_pair |-> TRUE, is_read1 |-> read2_left, is_read2 |-> ~read2_left,
        mapping_quality |-> mapping_quality, bar |-> "AAAC"] >>

\* pos >= iv.start and pos < iv.end
InInterval(pos, iv) == pos >= iv.start /\ pos < iv.end

\* afile.fetch(chrom, start, end): the alignments that overlap [start, end)
Fetch(alns, start, end) ==
    SelectSeq(alns, LAMBDA aln : aln.reference_start < end
                                 /\ aln.reference_start + aln.reference_length > start)

\* the midpoint branch: what one alignment adds to the count of region iv
MidpointCount(aln, iv, mode) ==
    IF aln.is_proper_pair /\ aln.is_read1 /\ mode = "midpoint"
          /\ InInterval(Min(aln.reference_start, aln.next_reference_start)
                            + Abs(aln.template_length) \div 2, iv)
    THEN 1 ELSE 0

\* the eitherend branch: every alignment of a proper pair counts unless it is
\* read 2 with minpos and maxpos both inside the region
EitherEndCount(aln, iv, mode) ==
    IF aln.is_proper_pair /\ mode = "eitherend"
    THEN LET minpos == Min(aln.reference_start + aln.template_length, aln.reference_start)
             maxpos == Max(aln.reference_start + aln.template_length, aln.reference_start)
         IN  IF InInterval(minpos, iv) /\ InInterval(maxpos, iv) /\ aln.is_read2
             THEN 0 ELSE 1
    ELSE 0

\* the single-end branch: the 5' end of the alignment
SingleEndCount(aln, iv, mode) ==
    IF ~aln.is_paired \/ mode = "countboth"
    THEN IF ~aln.is_reverse
         THEN (IF InInterval(aln.reference_start, iv) THEN 1 ELSE 0)
         ELSE (IF InInterval(aln.reference_start + aln.reference_length - 1, iv)
               THEN 1 ELSE 0)
    ELSE 0

\* the body of the loop over the fetched alignments: the filters, then the
\* three counting branches
AlignmentCount(aln, iv, mode, mapq, only_with_barcode, maxfraglen) ==
    IF Abs(aln.template_length) > maxfraglen THEN 0
    ELSE IF only_with_barcode /\ aln.bar = "dummy" THEN 0
    ELSE IF aln.mapping_quality < mapq THEN 0
    ELSE MidpointCount(aln, iv, mode) + EitherEndCount(aln, iv, mode)
             + SingleEndCount(aln, iv, mode)

\* sdokmat[idx, barcodemap[bar]] after the loop over the alignments fetched
\* for region iv of a chromosome of length genomesize
RegionCount(alns, iv, genomesize, mode, mapq, only_with_barcode, maxfraglen) ==
    LET tlen == IF mode # "midpoint" THEN 0 ELSE template_length
        fetched == Fetch(alns, Max(iv.start - tlen, 0), Min(iv.end + tlen, genomesize))
    IN  SumSeq(V([j \in 1..Len(fetched) |->
                     AlignmentCount(fetched[j], iv, mode, mapq, only_with_barcode,
                                    maxfraglen)]))

\* sparse_count_reads_in_regions with flank = 0 on one chromosome and one
\* barcode: the column of counts, one entry per region
sparse_count_reads_in_regions(alns, regions, genomesize, mode, mapq, only_with_barcode, maxfraglen) ==
    V([idx \in 1..Len(regions) |->
          RegionCount(alns, regions[idx], genomesize, mode, mapq, only_with_barcode,
                      maxfraglen)])

\* the calls of make_counting_bins: headers of one or two chromosomes
BinCalls ==
    {[op |-> "make_counting_bins", lengths |-> ls, binsize |-> b] :
        ls \in UNION {[1..n -> 1..MaxPos] : n \in 1..2}, b \in 1..(MaxPos \div 2)}

\* the regions [a, b) of a chromosome of length MaxPos
Regions == {iv \in [start : 0..MaxPos, end : 0..MaxPos] : iv.start < iv.end}

\* the calls of sparse_count_reads_in_regions: one region and the two mates of
\* one fragment, in every counting mode, with a good or a poor mapping quality
CountCalls ==
    {[op |-> "sparse_count_reads_in_regions", regions |-> <<iv>>,
      s |-> f[1], e |-> f[2], read2_left |-> rl, mode |-> mode,
      alns |-> PairedReads(f[1], f[2], r, rl, q)] :
        iv \in Regions,
        f \in {g \in (0..MaxPos) \X (0..MaxPos) : g[2] - g[1] >= 2},
        r \in 1..2, rl \in BOOLEAN, q \in {0, 30},
        mode \in {"midpoint", "eitherend", "countboth"}}

\* a call of one of the two functions is running
CountInit ==
    /\ call \in BinCalls \cup CountCalls
    /\ pc = "called"
    /\ ret = Pending
    /\ self = None /\ twin = None /\ loc = None /\ prev = None /\ log = <<>>

\* make_counting_bins(bamfile, binsize) returns its intervals
MakeCountingBins ==
    /\ pc = "called" /\ call.op = "make_counting_bins"
    /\ Return(Outcome("none", make_counting_bins(call.lengths, call.binsize, 1), 0, None))
    /\ UNCHANGED <<self, twin, call, loc, prev, log>>

\* sparse_count_reads_in_regions(bamfile, regions, barcodetag, mode=...) returns
\* its counts
SparseCountReads ==
    /\ pc = "called" /\ call.op = "sparse_count_reads_in_regions"
    /\ Return(Outcome("none",
                      sparse_count_reads_in_regions(call.alns, call.regions, MaxPos,
                                                    call.mode, 30, TRUE, MaxPos - 1),
                      0, None))
    /\ UNCHANGED <<self, twin, call, loc, prev, log>>

CountNext ==
    \/ MakeCountingBins
    \/ SparseCountReads

CountSpec == CountInit /\ [][CountNext]_vars

\* ------------------------------------------------------ class CountMatrix
\* A CountMatrix holds cmat (regions x cells), the region annotation
\* `regions` and the cell annotation `cannot`.  The annotations are pandas
\* tables: a sequence of rows, each with the index label it was read with
\* (0, 1, ... from the bed file) next to its columns.  cmat is its number of
\* columns and its rows; a row is its counts and, to tell whose counts they
\* are, the set `of` of the regions (by the label they were read with) whose
\* reads it holds.

\* the largest number of cells of a merged matrix
MaxCells == 5
\* the number of method calls a script makes on its matrices
MaxCalls == 2

\* the elements at the positions pos, in that order
Take(seq, pos) == V([k \in 1..Len(pos) |-> seq[pos[k]]])
\* a row of cmat restricted to the columns pos
TakeColumns(row, pos) == [row EXCEPT !.cnts = Take(@, pos)]
RowSum(row) == SumSeq(row.cnts)
ColSum(cmat, j) == SumSeq(V([i \in 1..Len(cmat.rows) |-> cmat.rows[i].cnts[j]]))

\* CountMatrix.__init__: the two assertions on the shape
CountMatrix(cmat, regionannotation, cellannotation) ==
    IF Len(cmat.rows) # Len(regionannotation) \/ cmat.ncols # Len(cellannotation)
    THEN [exc |-> "AssertionError", val |-> None]
    ELSE [exc |-> "none",
          val |-> [cmat |-> cmat, regions |-> regionannotation, cannot |-> cellannotation]]

\* CountMatrix.remove_chroms: idx holds the index labels of the rows that
\* stay, regions is replaced, then cmat is indexed with the labels as row
\* positions (an IndexError when a label is no row of cmat)
remove_chroms(o, chroms) ==
    LET keep == SortedIds({i \in 1..Len(o.regions) : o.regions[i].chrom \notin chroms})
        idx == V([k \in 1..Len(keep) |-> o.regions[keep[k]].label])
        o1 == [o EXCEPT !.regions = Take(o.regions, keep)]
    IN  IF \E k \in 1..Len(idx) : idx[k] >= Len(o.cmat.rows)
        THEN [self |-> o1, exc |-> "IndexError", val |-> None]
        ELSE LET o2 == [o1 EXCEPT !.cmat.rows = V([k \in 1..Len(idx) |-> o.cmat.rows[idx[k] + 1]])]
             IN  [self |-> o2, exc |-> "none", val |-> o2]

\* cmat.data[self.cmat.data > 0] = 1 and
\* cmat.data[self.cmat.data > trimcount] = trimcount: both masks are taken
\* on the counts of the receiver
TrimmedCount(n, binarize, trimcount) ==
    LET b == IF binarize /\ n > 0 THEN 1 ELSE n
    IN  IF trimcount # None /\ trimcount[1] > 0 /\ n > trimcount[1] THEN trimcount[1] ELSE b

Trimmed(cmat, binarize, trimcount) ==
    [cmat EXCEPT !.rows = V([i \in 1..Len(cmat.rows) |->
        [cmat.rows[i] EXCEPT !.cnts = V([j \in 1..Len(@) |->
            TrimmedCount(cmat.rows[i].cnts[j], binarize, trimcount)])]])]

\* lo <= n <= hi with None for the default bounds 0 and sys.maxsize
Within(n, lo, hi) == (lo = None \/ n >= lo[1]) /\ (hi = None \/ n <= hi[1])

\* cmat[:, keepcells] and cmat[keepregions, :]
Columns(cmat, pos) ==
    [ncols |-> Len(pos), rows |-> V([i \in 1..Len(cmat.rows) |-> TakeColumns(cmat.rows[i], pos)])]
Rows(cmat, pos) == [cmat EXCEPT !.rows = Take(@, pos)]

\* the cells filter_count_matrix keeps, from the column sums of cmat
KeepCells(cmat, cannot, minreadsincell, maxreadsincell) ==
    SortedIds({j \in 1..cmat.ncols :
        Within(ColSum(cmat, j), minreadsincell, maxreadsincell) /\ cannot[j].cell # "dummy"})

\* the regions it keeps, from the row sums over the kept cells
KeepRegions(cmat, minreadsinregion, maxreadsinregion) ==
    SortedIds({i \in 1..Len(cmat.rows) :
        Within(RowSum(cmat.rows[i]), minreadsinregion, maxreadsinregion)})

\* the end of filter_count_matrix: self.regions.iloc[keepregions] raises an
\* IndexError for a position that regions does not have
FilterRegions(o, cmat, cannot, keepregions) ==
    IF \E k \in 1..Len(keepregions) : keepregions[k] > Len(o.regions)
    THEN [exc |-> "IndexError", val |-> None]
    ELSE CountMatrix(Rows(cmat, keepregions), Take(o.regions, keepregions), cannot)

\* filter_count_matrix after the copy was binarized and trimmed
FilterTrimmed(o, cmat, keepcells, minreadsinregion, maxreadsinregion) ==
    FilterRegions(o, Columns(cmat, keepcells), Take(o.cannot, keepcells),
                  KeepRegions(Columns(cmat, keepcells), minreadsinregion, maxreadsinregion))

\* CountMatrix.filter_count_matrix (and filter, which forwards to it); a is
\* the record of its arguments
filter_count_matrix(o, a) ==
    FilterTrimmed(o, Trimmed(o.cmat, a.binarize, a.trimcount),
                  KeepCells(Trimmed(o.cmat, a.binarize, a.trimcount), o.cannot,
                            a.minreadsincell, a.maxreadsincell),
                  a.minreadsinregion, a.maxreadsinregion)

\* np.arange(self.cannot.shape[0])[self.cannot.cell.isin(cell)]
CellsIn(cannot, cell) == SortedIds({j \in 1..Len(cannot) : cannot[j].cell \in cell})

\* CountMatrix.subset: the cells whose name is in cell
subset(o, cell) ==
    CountMatrix(Columns(o.cmat, CellsIn(o.cannot, cell)), o.regions,
                Take(o.cannot, CellsIn(o.cannot, cell)))

\* hstack([cm.cmat for cm in cms]) of two matrices; ValueError when the
\* numbers of rows differ
HStack(a, b) ==
    [ncols |-> a.ncols + b.ncols,
     rows |-> V([i \in 1..Len(a.rows) |->
                 [of |-> a.rows[i].of \cup b.rows[i].of,
                  cnts |-> a.rows[i].cnts \o b.rows[i].cnts]])]

\* CountMatrix.merge of two matrices: the regions of the first are kept
merge(cms) ==
    IF Len(cms[1].cmat.rows) # Len(cms[2].cmat.rows)
    THEN [exc |-> "ValueError", val |-> None]
    ELSE CountMatrix(HStack(cms[1].cmat, cms[2].cmat), cms[1].regions,
                     cms[1].cannot \o cms[2].cannot)

\* cell[group == glab]
CellsOfGroup(cell, group, glab) == {cell[k] : k \in {k \in 1..Len(cell) : group[k] = glab}}

\* CountMatrix.pseudobulk: one column per group label, the sum of the
\* counts of the group's cells; grouplabels is list(set(group)) in the
\* order the set gives
pseudobulk(o, cell, group, grouplabels) ==
    CountMatrix(
        [ncols |-> Len(grouplabels),
         rows |-> V([i \in 1..Len(o.cmat.rows) |->
            [of |-> o.cmat.rows[i].of,
             cnts |-> V([g \in 1..Len(grouplabels) |->
                RowSum(TakeColumns(o.cmat.rows[i],
                    CellsIn(o.cannot, CellsOfGroup(cell, group, grouplabels[g]))))])]])],
        o.regions,
        V([g \in 1..Len(grouplabels) |-> [label |-> g - 1, cell |-> grouplabels[g]]]))

\* -------------------------------------------- operations on a CountMatrix
\* the region annotation read from a bed file and two samples counted on it
BedRegions == <<[label |-> 0, chrom |-> "chr1"], [label |-> 1, chrom |-> "chr2"], [label |-> 2, chrom |-> "chr3"]>>
Annotation(cells) == V([j \in 1..Len(cells) |-> [label |-> j - 1, cell |-> cells[j]]])
Counted(counts) == [ncols |-> Len(counts[1]), rows |-> V([i \in 1..Len(counts) |-> [of |-> {i - 1}, cnts |-> counts[i]]])]

Sample1 == CountMatrix(Counted(<<<<3, 0, 1>>, <<1, 1, 0>>, <<0, 2, 1>>>>), BedRegions, Annotation(<<"a", "b", "dummy">>)).val
Sample2 == CountMatrix(Counted(<<<<1, 0>>, <<0, 2>>, <<2, 2>>>>), BedRegions, Annotation(<<"c", "d">>)).val

\* the arguments the operations are called with
ChromSets == {{"chr1"}, {"chr2"}, {"chr3"}}
Thresholds == {None, <<2>>}
FilterArgs ==
    [minreadsincell : Thresholds, maxreadsincell : Thresholds,
     minreadsinregion : Thresholds, maxreadsinregion : Thresholds,
     binarize : BOOLEAN, trimcount : {None, <<0>>, <<2>>}]
CellSets == {{"a"}, {"a", "dummy"}, {"b", "c"}}
Groupings == {<<"g1", "g1">>, <<"g1", "g2">>}
\* the orders list(set(group)) can come in
LabelOrders(group) ==
    {s \in UNION {[1..n -> {group[k] : k \in 1..Len(group)}] : n \in 1..Len(group)} :
        /\ {s[k] : k \in 1..Len(s)} = {group[k] : k \in 1..Len(group)}
        /\ \A i, j \in 1..Len(s) : i # j => s[i] # s[j]}

MatrixInit ==
    /\ self = Sample1
    /\ twin = Sample2
    /\ pc = "idle"
    /\ call = [op |-> "none", a |-> None]
    /\ loc = None
    /\ ret = [exc |-> "none", val |-> None]
    /\ prev = None
    /\ log = <<>>

\* a method of self is called with the arguments a: the receiver after the
\* call, and what the call returned or raised
Called(op, a, receiver, out) ==
    /\ Len(log) < MaxCalls
    /\ call' = [op |-> op, a |-> a]
    /\ self' = receiver
    /\ ret' = [exc |-> out.exc, val |-> out.val]
    /\ log' = Append(log, op)
    /\ UNCHANGED <<twin, pc, loc, prev>>

RemoveChroms(chroms) ==
    /\ pc = "idle"
    /\ Called("remove_chroms", chroms, remove_chroms(self, chroms).self, remove_chroms(self, chroms))

FilterCountMatrix(a) ==
    /\ pc = "idle"
    /\ Called("filter_count_matrix", a, self, filter_count_matrix(self, a))

Subset(cell) ==
    /\ pc = "idle"
    /\ Called("subset", cell, self, subset(self, cell))

\* CountMatrix.merge([self, twin])
Merge2 ==
    /\ pc = "idle"
    /\ self.cmat.ncols + twin.cmat.ncols <= MaxCells
    /\ Called("merge", None, self, merge(<<self, twin>>))

Pseudobulk(group) ==
    /\ pc = "idle"
    /\ \E grouplabels \in LabelOrders(group) :
        Called("pseudobulk", group, self, pseudobulk(self, <<"a", "b">>, group, grouplabels))

\* cm = cm.filter(...): the caller goes on with the matrix it was returned
Rebind ==
    /\ pc = "idle"
    /\ ret.exc = "none"
    /\ ret.val # None
    /\ ret.val # self
    /\ self' = ret.val
    /\ UNCHANGED <<twin, pc, call, loc, ret, prev, log>>

MatrixNext ==
    \/ \E chroms \in ChromSets : RemoveChroms(chroms)
    \/ \E a \in FilterArgs : FilterCountMatrix(a)
    \/ \E cell \in CellSets : Subset(cell)
    \/ Merge2
    \/ \E group \in Groupings : Pseudobulk(group)
    \/ Rebind

MatrixSpec == MatrixInit /\ [][MatrixNext]_vars

\* =============================================================== properties
QueryOps == {"transform", "score", "perplexity"}
ConfigErrors ==
    {"ValueError: Invalid 'n_components' parameter",
     "ValueError: Invalid 'total_samples' parameter",
     "ValueError: Invalid 'learning_offset' parameter",
     "ValueError: Invalid 'learning_method' parameter"}
NegativeError == "ValueError: Negative values in data"
Idle == pc = "idle"
Fitted(o) == hasattr(o, "components_")
InLog(step) == \E j \in 1..Len(log) : log[j] = step
\* attribute a is the same in o1 and o2 (absent in both, or equal)
SameAttr(o1, o2, a) ==
    /\ hasattr(o1, a) <=> hasattr(o2, a)
    /\ hasattr(o1, a) => o1[a] = o2[a]
\* a step that enters fit
FitCalled == pc = "idle" /\ call'.op = "fit" /\ log' = <<"_check_params">>
\* a step that is one whole call of transform, score or perplexity
QueryCalled == pc = "idle" /\ pc' = "idle" /\ call'.op \in QueryOps
\* the number of topics the model works with
EffectiveTopics(o) == IF o.n_topics # None THEN o.n_topics[1] ELSE o.n_components
OtherConfigInvalid(o) ==
    \/ o.total_samples <= 0
    \/ o.learning_offset < 0
    \/ o.learning_method \notin {"batch", "online"}
\* fit raised a configuration error with the input untouched and the latent
\* variables as they were
FailedFast ==
    /\ pc' = "idle"
    /\ ret'.exc \in ConfigErrors
    /\ log' = <<"_check_params">>
    /\ \A a \in {"components_", "n_batch_iter_", "n_iter_"} : SameAttr(self, self', a)

\* C1 (as amended): fit raises a configuration error whenever the effective
\* topic count (n_topics when given, else n_components) is <= 0, or
\* total_samples <= 0, or learning_offset < 0, or learning_method is neither
\* 'batch' nor 'online'; it does so before the input matrix is validated and
\* before components_, n_batch_iter_ or n_iter_ is initialised.
C1_InvalidConfigFailsFast ==
    [][(FitCalled /\ (EffectiveTopics(self) <= 0 \/ OtherConfigInvalid(self)))
          => FailedFast]_vars

\* C1 as stated: the same with the constructor argument n_components <= 0 as
\* the first condition.
C1_AsStated ==
    [][(FitCalled /\ (self.n_components <= 0 \/ OtherConfigInvalid(self)))
          => FailedFast]_vars

\* fit on a matrix with negative entries has raised the configuration error
C1_Witness ==
    /\ Idle /\ call.op = "fit" /\ HasNegative(call.X)
    /\ ret.exc = "ValueError: Invalid 'total_samples' parameter"
    /\ ~Fitted(self)

\* C2 (as amended): on a model without components_, transform and perplexity
\* raise the not-fitted error for every input matrix, valid or not, and so
\* does score for every matrix without negative entries; score on a matrix
\* with negative entries raises the domain-validation error instead.  No
\* E-step is run.
C2_NotFittedComesFirst ==
    (Idle /\ call.op \in QueryOps /\ ~Fitted(self))
        => /\ ret.exc = IF call.op = "score" /\ HasNegative(call.X)
                        THEN NegativeError ELSE "NotFittedError"
           /\ ret.esteps = 0

\* C2 as stated: on a model on which no fit has completed (bound_ is set when
\* fit returns), every query raises the not-fitted error.
C2_AsStated ==
    (Idle /\ call.op \in QueryOps /\ ~hasattr(self, "bound_"))
        => ret.exc = "NotFittedError"

\* transform of a matrix with negative entries on a model never fit
C2_Witness ==
    /\ Idle /\ call.op = "transform" /\ HasNegative(call.X)
    /\ ~Fitted(self) /\ ret.exc = "NotFittedError"

\* the outcome of a query on a matrix with another number of features than
\* components_: the dimension error naming both sizes, no E-step, self as it was
DimensionMismatchRaised ==
    /\ ret'.exc = "ValueError: dimensions"
    /\ ret'.val = <<NCols(call'.X), NCols(self["components_"])>>
    /\ ret'.esteps = 0
    /\ log' = <<>>
    /\ self' = self

\* C3 (as amended): on a model with components_, transform or score of a
\* matrix without negative entries whose number of features differs from the
\* number of columns of components_ raises the dimension error that names
\* both sizes, runs no E-step and leaves the model unchanged.
C3_DimensionMismatch ==
    [][(/\ QueryCalled /\ call'.op \in {"transform", "score"}
        /\ Fitted(self)
        /\ ~HasNegative(call'.X)
        /\ NCols(call'.X) # NCols(self["components_"]))
          => DimensionMismatchRaised]_vars

\* C3 as stated: the same for every matrix with another number of features.
C3_AsStated ==
    [][(/\ QueryCalled /\ call'.op \in {"transform", "score"}
        /\ Fitted(self)
        /\ NCols(call'.X) # NCols(self["components_"]))
          => DimensionMismatchRaised]_vars

\* score of a three-feature matrix on a model fit on two features
C3_Witness ==
    /\ Idle /\ call.op = "score" /\ hasattr(self, "bound_")
    /\ NCols(call.X) = 3 /\ NCols(self["components_"]) = 2
    /\ ret.exc = "ValueError: dimensions" /\ ret.val = <<3, 2>>

\* the error a call on a matrix with negative entries ends with
NegativeInputError(o, op) ==
    IF op = "fit" /\ (EffectiveTopics(o) <= 0 \/ OtherConfigInvalid(o))
    THEN ConfigErrors
    ELSE IF op \in {"transform", "perplexity"} /\ ~Fitted(o)
    THEN {"NotFittedError"}
    ELSE {NegativeError}

\* C4 (as amended): no call of fit, transform, score or perplexity on a matrix
\* with a negative entry runs an E-step or M-step on it; the call raises the
\* domain-validation error, except that fit with an invalid configuration
\* raises the configuration error and transform and perplexity on a model
\* without components_ raise the not-fitted error.
C4_NegativeInputRejected ==
    (call.op # "none" /\ HasNegative(call.X))
        => /\ ~InLog("_e_step") /\ ~InLog("m_step")
           /\ Idle => (ret.exc \in NegativeInputError(self, call.op) /\ ret.esteps = 0)

\* C4 as stated: every such call raises the domain-validation error.
C4_AsStated ==
    (Idle /\ call.op # "none" /\ HasNegative(call.X)) => ret.exc = NegativeError

\* fit of a matrix with a negative entry on a fitted model has raised the
\* domain-validation error
C4_Witness ==
    /\ Idle /\ call.op = "fit" /\ HasNegative(call.X)
    /\ ret.exc = NegativeError /\ Fitted(self)
    /\ log = <<"_check_params", "_check_non_neg_array">>

\* C5: on a fitted model, transform or score draws nothing from the random
\* state (the initial document-topic distribution is the constant one), leaves
\* components_, exp_dirichlet_component_, reg_weights_, n_batch_iter_, n_iter_
\* and the random state as they were, and a second call in a row with the same
\* input returns what the first returned.
C5_TransformIdempotent ==
    [][(QueryCalled /\ call'.op \in {"transform", "score"} /\ Fitted(self))
          => /\ ret'.rng = None
             /\ \A a \in {"components_", "exp_dirichlet_component_", "reg_weights_",
                          "n_batch_iter_", "n_iter_", "random_state_"} :
                    SameAttr(self, self', a)
             /\ prev' # None => ret' = prev'[1]]_vars

\* transform has returned the same distribution twice in a row
C5_Witness ==
    /\ Idle /\ call.op = "transform" /\ Fitted(self)
    /\ prev # None /\ prev[1].exc = "none" /\ ret = prev[1]
    /\ Len(ret.val) = Len(call.X)

\* the documents lo..hi of the j-th mini-batch of the running pass
BatchLo(j) == loc.batches[j][1]
BatchHi(j) == loc.batches[j][2]
\* the EM steps of the running fit so far are full passes plus the
\* mini-batches of the running pass, each with one E-step and one M-step
StepsPerPass(n_samples, batch_size) == (n_samples + batch_size - 1) \div batch_size
NumberInLog(step) == Cardinality({j \in 1..Len(log) : log[j] = step})

\* C6: in batch mode every EM step runs the E-step over all documents and
\* then sets components_ to topic_word_prior_ plus the sufficient statistics
\* of that E-step; nothing of the old components_ is carried over.
C6_BatchOverwrites ==
    (pc = "iter_end" /\ self.learning_method = "batch")
        => /\ loc.batches = << <<0, Len(call.X)>> >>
           /\ loc.n_em = loc.i + 1
           /\ NumberInLog("m_step") = loc.n_em
           /\ self["components_"] =
                  [k \in 1..Len(loc.suff_stats) |->
                      [w \in 1..Len(loc.suff_stats[k]) |->
                          self["topic_word_prior_"] + loc.suff_stats[k][w]]]

\* the second batch pass has replaced the components_ of the first
C6_Witness ==
    /\ pc = "iter_end" /\ self.learning_method = "batch" /\ loc.i = 1
    /\ Len(call.X) = MaxDocs
    /\ self["components_"] # loc.before

\* C7: in online mode every pass of fit splits the n_samples documents into
\* consecutive mini-batches of at most batch_size documents, every document in
\* exactly one of them, runs one E-step plus M-step per mini-batch in document
\* order, and scales each mini-batch's sufficient statistics by
\* doc_ratio = n_samples / (documents in the mini-batch).
C7_OnlineMiniBatches ==
    (self.learning_method = "online" /\ pc \in {"em", "iter_end"} /\ loc.n_em > 0)
        => LET n == Len(loc.batches) IN
           /\ n > 0 => BatchLo(1) = 0
           /\ \A j \in 1..n :
                 /\ BatchLo(j) < BatchHi(j)
                 /\ BatchHi(j) - BatchLo(j) <= self.batch_size
                 /\ BatchHi(j) <= Len(call.X)
                 /\ j < n => (BatchHi(j) = BatchLo(j + 1)
                              /\ BatchHi(j) - BatchLo(j) = self.batch_size)
           /\ pc = "iter_end" => (n > 0 /\ BatchHi(n) = Len(call.X))
           /\ pc = "em" => (n = 0 \/ BatchHi(n) < Len(call.X))
           /\ loc.n_em = loc.i * StepsPerPass(Len(call.X), self.batch_size) + n
           /\ NumberInLog("m_step") = loc.n_em
           /\ n > 0 =>
                 /\ loc.doc_ratio * (BatchHi(n) - BatchLo(n)) <= Len(call.X) * Unit
                 /\ Len(call.X) * Unit < (loc.doc_ratio + 1) * (BatchHi(n) - BatchLo(n))
                 /\ self["components_"] =
                        [k \in 1..Len(loc.before) |->
                            [w \in 1..Len(loc.before[k]) |->
                                Mul(loc.before[k][w], Unit - loc.weight)
                                + Mul(loc.weight,
                                      self["topic_word_prior_"]
                                      + Mul(loc.doc_ratio, loc.suff_stats[k][w]))]]

\* a pass over MaxDocs documents has ended with a last mini-batch smaller
\* than the ones before it
C7_Witness ==
    /\ self.learning_method = "online" /\ pc = "iter_end"
    /\ Len(call.X) = MaxDocs /\ Len(loc.batches) > 1
    /\ BatchHi(Len(loc.batches)) - BatchLo(Len(loc.batches)) < self.batch_size
    /\ loc.doc_ratio > Unit

\* C8 as stated, for an online model on which a fit has completed (bound_ is
\* set when fit returns): n_batch_iter_ goes up by one with every mini-batch and is
\* never lowered or reset, so a second fit goes on from the value the first
\* one reached.
C8_AsStated ==
    [][(/\ self.learning_method = "online"
        /\ hasattr(self, "bound_") /\ hasattr(self', "n_batch_iter_"))
          => \/ self'["n_batch_iter_"] = self["n_batch_iter_"]
             \/ (pc = "em" /\ self'["n_batch_iter_"] = self["n_batch_iter_"] + 1)]_vars

\* C9 as stated, for an online model on which a fit has completed: components_
\* changes through M-steps only; a later fit goes on from it and does not
\* initialise it again.
C9_AsStated ==
    [][(/\ self.learning_method = "online"
        /\ hasattr(self, "bound_") /\ self'["components_"] # self["components_"])
          => pc = "em"]_vars

\* C10: from the same components_ and sufficient statistics, the online
\* M-step on one mini-batch that holds the whole corpus with weight 1.0 gives
\* the components_ the batch M-step gives, and the two runs stay equal over
\* all following EM steps (twin is the batch run).
C10_OnlineEqualsBatch ==
    (self.learning_method = "online" /\ loc.unit_full /\ loc.n_em > 0)
        => /\ self["components_"] = twin["components_"]
           /\ self["exp_dirichlet_component_"] = twin["exp_dirichlet_component_"]
           /\ self["n_batch_iter_"] = twin["n_batch_iter_"]

\* two online passes of weight 1.0 over the whole corpus have been run next
\* to two batch passes
C10_Witness ==
    /\ self.learning_method = "online" /\ loc.unit_full /\ loc.n_em = 2
    /\ Len(call.X) = MaxDocs
    /\ loc.weight = Unit /\ loc.doc_ratio = Unit
    /\ self["components_"] = twin["components_"]
    /\ self["components_"] # loc.before

\* ------------------------------------------------- plain LDA without gaps
\* the attributes that only the Markov path and the regression read
CouplingAttrs == {"reg_weights", "no_regression", "max_dist", "max_dist_", "reg_weights_"}
\* the object o built with other values of reg_weights, no_regression and
\* max_dist, and with the attributes derived from them changed alike
OtherCoupling(o) ==
    [a \in DOMAIN o |->
        IF a = "reg_weights" THEN <<Unit, -Unit>>
        ELSE IF a = "no_regression" THEN ~o[a]
        ELSE IF a \in {"max_dist", "max_dist_"} THEN o[a] + 3
        ELSE IF a = "reg_weights_" THEN <<o[a][1] + Unit, o[a][2] - Unit>>
        ELSE o[a]]
\* the object o without those attributes
WithoutCoupling(o) == [a \in (DOMAIN o) \ CouplingAttrs |-> o[a]]
\* the emission matrix o holds is the exponentiated Dirichlet expectation of
\* its components_
EmissionExponentiated(o) ==
    o["exp_dirichlet_component_"] = NpExpMat(_dirichlet_expectation_2d(o["components_"]))
\* a step that is one _em_step of a fit without gaps
PlainEmStep == pc = "em" /\ call.y = None /\ pc' # "idle"
\* a step that is one whole transform or score without gaps on a model on
\* which a fit has completed
PlainQuery ==
    /\ QueryCalled /\ call'.op \in {"transform", "score"} /\ call'.y = None
    /\ hasattr(self, "bound_") /\ ret'.esteps > 0

\* C11 as stated: without a gap matrix, fit, transform and score run the
\* plain-LDA steps only: the outcome is the same for every reg_weights,
\* no_regression and max_dist, reg_weights_ is not refit, and the emission
\* matrix the E-step is handed is the exponentiated Dirichlet expectation.
C11_AsStated ==
    [][/\ PlainEmStep =>
            /\ EmissionExponentiated(self)
            /\ SameAttr(self, self', "reg_weights_")
            /\ WithoutCoupling(self') =
                   WithoutCoupling(
                       _em_step(OtherCoupling(self), RowSlice(call.X, loc.lo, loc'.lo),
                                None, None, Len(call.X),
                                self.learning_method # "online", "converged").self)
       /\ PlainQuery =>
            /\ EmissionExponentiated(self)
            /\ SameAttr(self, self', "reg_weights_")
            /\ ret' = IF call'.op = "transform"
                      THEN transform(OtherCoupling(self), call'.X, None)
                      ELSE score(OtherCoupling(self), call'.X, None)]_vars

\* ------------------------------------------------------------- positivity
AllPositive(m) == \A r \in 1..Len(m) : \A c \in 1..Len(m[r]) : m[r][c] > 0
\* both priors the model works with are positive and the learning-rate
\* weight lies in (0, 1]
PositivePriors(o) ==
    /\ o.doc_topic_prior = None \/ o.doc_topic_prior[1] > 0
    /\ o.topic_word_prior = None \/ o.topic_word_prior[1] > 0
    /\ o.learning_decay >= 0
\* components_, the document-topic distribution of the latest E-step of fit
\* and the distribution transform returned have positive entries only
EntriesPositive ==
    /\ hasattr(self, "components_") => AllPositive(self["components_"])
    /\ loc.doc_topic_distr # None => AllPositive(loc.doc_topic_distr)
    /\ (Idle /\ call.op = "transform" /\ ret.exc = "none") => AllPositive(ret.val)

\* C12 (as amended): for every accepted configuration whose doc_topic_prior
\* and topic_word_prior are positive (the default 1/n_components or a given
\* positive value) and whose learning_decay is not negative, in every state
\* reachable through fit (batch or online) and transform every entry of
\* components_ and of the document-topic distribution is strictly positive.
C12_PositiveUnderPositivePriors == PositivePriors(self) => EntriesPositive

\* C12 as stated: the same for every configuration _check_params accepts.
C12_AsStated == EntriesPositive

\* an online step has left a positive pseudocount on a feature that no
\* document of the mini-batch holds, and a positive topic weight on a
\* document without active bins
C12_Witness ==
    /\ PositivePriors(self) /\ self.learning_method = "online" /\ pc = "iter_end"
    /\ \E w \in 1..NCols(call.X) :
          /\ \A k \in 1..Len(loc.suff_stats) : loc.suff_stats[k][w] = 0
          /\ \A k \in 1..Len(loc.suff_stats) : self["components_"][k][w] > 0
    /\ \E d \in 1..Len(call.X) : Ids(call.X[d]) = {} /\ AllPositive(loc.doc_topic_distr)

\* --------------------------------------------------- maximum-distance cap
\* the gaps of document d that lie between two of its active bins
GapsOf(X, y, d) == 1..Min(Cardinality(Ids(X[d])) - 1, Len(y[d]))
\* in the E-step every gap of X above max_dist_ gets the capped argument
EStepCapped(o, X, y) ==
    \A d \in 1..Len(X) : \A i \in GapsOf(X, y, d) :
        y[d][i] > o["max_dist_"] =>
            LogSigArg(y[d], Cardinality(Ids(X[d])), o["reg_weights_"], o["max_dist_"])[i]
                = CappedArg
\* in the likelihood every gap of X above max_dist_ gets the capped argument
LikelihoodCapped(o, X, y) ==
    \A d \in 1..Len(X) : \A i \in GapsOf(X, y, d) :
        y[d][i] > o["max_dist_"] =>
            LikelihoodSigArg(y[d], Cardinality(Ids(X[d])), o["reg_weights_"])[i] = CappedArg

\* a call with a gap matrix on a model that has its regression weights
CoupledCall ==
    /\ call.op # "none" /\ call.y # None /\ ~HasNegative(call.X)
    /\ hasattr(self, "reg_weights_") /\ hasattr(self, "max_dist_")
\* the running or last call has run an E-step on its input
EStepRun == InLog("_e_step") /\ NCols(call.X) = NCols(self["components_"])
\* score or perplexity has returned a value
LikelihoodRun == Idle /\ call.op \in {"score", "perplexity"} /\ ret.exc = "none"

\* C13 as stated: wherever a transition penalty is derived from the gaps (the
\* E-steps of fit and transform, and the likelihood behind score and
\* perplexity), a gap above max_dist gets the capped argument whatever
\* reg_weights_ holds.
C13_AsStated ==
    /\ (CoupledCall /\ EStepRun) => EStepCapped(self, call.X, call.y)
    /\ (CoupledCall /\ LikelihoodRun) => LikelihoodCapped(self, call.X, call.y)

\* ------------------------------------------------------------------ C14
\* document d of the call's matrix has no active bin
EmptyDoc(d) == Ids(call.X[d]) = {}
\* the call has handed its whole matrix, empty document d included, to an E-step
EStepOnEmptyDoc(d) ==
    /\ call.op # "none" /\ ~HasNegative(call.X) /\ InLog("_e_step")
    /\ d \in 1..Len(call.X) /\ EmptyDoc(d)
\* every entry of row is the document-topic prior
AtPrior(row, o) == \A k \in 1..Len(row) : row[k] = o["doc_topic_prior_"]

\* C14 as stated: in the plain-LDA and in the Markov E-step alike, a document
\* without active bins raises no error, adds nothing to the sufficient
\* statistics, and ends with every entry of its topic vector at the prior.
C14_AsStated ==
    \A d \in 1..MaxDocs : EStepOnEmptyDoc(d) =>
        /\ ret.exc \in {"pending", "none"}
        /\ (loc.doc_topic_distr # None /\ Len(loc.doc_topic_distr) = Len(call.X)) =>
               /\ AtPrior(loc.doc_topic_distr[d], self)
               /\ LdaDocSstats(call.X[d], loc.doc_topic_distr[d], self["exp_dirichlet_component_"])
                      = Zeros(Len(loc.doc_topic_distr[d]), Len(call.X[d]))

\* ------------------------------------------------------------------ C15
\* an _em_step whose call of the optimizer ended in failure has just run
OptimizerFailed == pc = "em" /\ loc'.n_em = loc.n_em + 1 /\ loc'.ores = <<FALSE>>

\* C15 as stated: when the optimizer of the regression step fails during an
\* EM step, reg_weights_ keeps the value it had before the step and the EM
\* loop goes on (the fit does not end there).
C15_AsStated ==
    [][OptimizerFailed =>
           /\ self'["reg_weights_"] = self["reg_weights_"]
           /\ pc' \in {"em", "iter_end"} /\ ret'.exc = "pending"]_vars

\* ------------------------------------------------------------------ C16
\* the loop of the running fit has been entered
InFitLoop == call.op = "fit" /\ pc \in {"em", "iter_end", "final"}
\* the loop of the fit has ended and fit has gone on to its final perplexity
LoopEnded == call.op = "fit" /\ (pc = "final" \/ (Idle /\ ret.exc = "none"))
\* the perplexity checks due in the passes completed so far (the one of the
\* pass that has just run its EM step is still to come)
ChecksDue ==
    IF self.evaluate_every <= 0 THEN 0
    ELSE (IF pc = "iter_end" THEN loc.passes - 1 ELSE loc.passes) \div self.evaluate_every
\* check j found a bound closer than perp_tol to the bound of check j - 1
CheckConverged(j) == j >= 2 /\ Abs(loc.checks[j] - loc.checks[j - 1]) < self.perp_tol

\* C16: with evaluate_every = N > 0 fit evaluates the perplexity exactly after
\* the passes N, 2N, ... and never with evaluate_every <= 0; it leaves the
\* loop at the first check whose bound is closer than perp_tol to the bound
\* of the check before, so never at the first check; and it runs at most
\* max_iter passes.
C16_PerplexityMonitor ==
    /\ (InFitLoop \/ LoopEnded) =>
           /\ Len(loc.checks) = ChecksDue
           /\ loc.passes <= self.max_iter
           /\ \A j \in 1..Len(loc.checks) :
                  CheckConverged(j) => (j = Len(loc.checks) /\ LoopEnded)
    /\ (LoopEnded /\ loc.passes < self.max_iter) =>
           /\ self.evaluate_every > 0
           /\ loc.passes = self.evaluate_every * Len(loc.checks)
           /\ CheckConverged(Len(loc.checks))

\* a fit has left the loop at its third check, before max_iter passes
C16_Witness ==
    /\ LoopEnded /\ loc.passes < self.max_iter
    /\ Len(loc.checks) >= 3 /\ CheckConverged(Len(loc.checks))

\* ------------------------------------------------------------------ C17
\* fit has returned self
FitReturned == call.op = "fit" /\ Idle /\ ret.exc = "none"

\* C17 as stated: after fit returns, n_iter_ is the number of passes whose EM
\* step was executed, whether the loop ran to max_iter or stopped early.
C17_AsStated == FitReturned => self["n_iter_"] = loc.passes

\* ------------------------------------------------------------------ C18
\* make_counting_bins has returned
BinsReturned == Idle /\ call.op = "make_counting_bins"
\* the intervals returned for chromosome chrom, in order
BinsOf(chrom) == SelectSeq(ret.val, LAMBDA iv : iv.chrom = chrom)
\* bins tiles [0, length) with intervals of size binsize, the last one shorter
\* when length is no multiple of binsize
Tiles(bins, length, binsize) ==
    /\ Len(bins) >= 1
    /\ bins[Len(bins)].end = length
    /\ \A i \in 1..Len(bins) :
           /\ bins[i].start = (i - 1) * binsize
           /\ bins[i].start < bins[i].end
           /\ bins[i].end - bins[i].start <= binsize
           /\ i < Len(bins) => bins[i].end = bins[i + 1].start

\* C18 as stated: for every chromosome of length G > 0 and every binsize
\* b > 0, make_counting_bins returns consecutive, non-overlapping, non-empty
\* intervals [0, b), [b, 2b), ... of length at most b whose union is [0, G).
C18_AsStated ==
    BinsReturned =>
        \A chrom \in 1..Len(call.lengths) :
            Tiles(BinsOf(chrom), call.lengths[chrom], call.binsize)

\* ------------------------------------------------------------------ C19
\* sparse_count_reads_in_regions has returned the count of a proper pair that
\* passes the filters, in mode 'eitherend'
EitherEndCounted ==
    /\ Idle /\ call.op = "sparse_count_reads_in_regions" /\ call.mode = "eitherend"
    /\ \A j \in 1..Len(call.alns) :
           call.alns[j].mapping_quality >= 30 /\ Abs(call.alns[j].template_length) < MaxPos
\* the 5' ends of the fragment [s, e): s of the forward mate, e - 1 of the
\* reverse mate
LeftEndInside == InInterval(call.s, call.regions[1])
RightEndInside == InInterval(call.e - 1, call.regions[1])

\* C19 as stated: in mode 'eitherend' a properly paired fragment that passes
\* the filters adds a count to a region if and only if at least one of its
\* two ends lies inside the region, and exactly one count when both do.
C19_AsStated ==
    EitherEndCounted =>
        /\ ret.val[1] > 0 <=> (LeftEndInside \/ RightEndInside)
        /\ (LeftEndInside /\ RightEndInside) => ret.val[1] = 1

\* ------------------------------------------------------------------ C20
\* the loop state (topic vector d and its expectation e) of document idx of
\* X before the first iteration of an E-step with random initialisation
DocLoopStart(o, X, y, idx) ==
    LET d0 == InitDocTopic(<<o["random_state_"]>>, Len(X),
                           Len(o["exp_dirichlet_component_"])).val[idx]
    IN  [d |-> d0,
         e |-> IF y = None THEN NpExpRow(DirichletExpectationRow(d0))
               ELSE DirichletExpectationRow(d0)]

\* one iteration of the loop of a document from the loop state st
DocLoopStep(o, cnts, y, y_d, st) ==
    IF y = None
    THEN _dirichlet_expectation_1d(
             LdaDocTopic(cnts, st.e, o["exp_dirichlet_component_"]), o["doc_topic_prior_"])
    ELSE LET b == MarkovDocBins(cnts, y_d, o["exp_dirichlet_component_"],
                                o["reg_weights_"], o["max_dist_"])
             d == MarkovDocUpdate(b.cnts_seq, b.beta, b.p, o["doc_topic_prior_"],
                                  NpExpRow(st.e), Len(st.d))
         IN  [d |-> d, e |-> DirichletExpectationRow(d)]

\* the loop state of document idx after n iterations
RECURSIVE DocLoopAfter(_, _, _, _, _)
DocLoopAfter(o, X, y, idx, n) ==
    IF n <= 0 THEN DocLoopStart(o, X, y, idx)
    ELSE DocLoopStep(o, X[idx], y, IF y = None THEN None ELSE y[idx],
                     DocLoopAfter(o, X, y, idx, n - 1))

\* the mean change of the topic vector of document idx in iteration j
IterationChange(o, X, y, idx, j) ==
    mean_change(DocLoopAfter(o, X, y, idx, j - 1).d, DocLoopAfter(o, X, y, idx, j).d)

\* vector is what the loop of document idx leaves after k iterations, none of
\* the first k - 1 having converged, and k is the cap unless iteration k
\* converged
StoppedAfter(o, X, y, idx, k, vector) ==
    /\ vector = DocLoopAfter(o, X, y, idx, k).d
    /\ \A j \in 1..(k - 1) : IterationChange(o, X, y, idx, j) >= o.mean_change_tol
    /\ k < o.max_doc_update_iter =>
           (k >= 1 /\ IterationChange(o, X, y, idx, k) < o.mean_change_tol)

\* the E-step of an _em_step of o on X, y left doc_topic_distr
DocLoopsStopped(o, X, y, doc_topic_distr) ==
    IF doc_topic_distr = None
    THEN y # None /\ \E idx \in 1..Len(X) : Ids(X[idx]) = {}
    ELSE \A idx \in 1..Len(X) :
             \E k \in 0..o.max_doc_update_iter :
                 StoppedAfter(o, X, y, idx, k, doc_topic_distr[idx])

\* an _em_step of the running fit has just run its E-step
EmStepRan == pc = "em" /\ loc'.n_em = loc.n_em + 1

\* C20: the loop of every document makes at most max_doc_update_iter
\* iterations and stops at the first one whose mean change is below
\* mean_change_tol; at the cap without convergence the vector of the last
\* iteration is stored and no error is raised (an E-step raises only for a
\* document without active bins, before that document's loop starts).
C20_DocLoopStops ==
    [][EmStepRan =>
           /\ DocLoopsStopped(self, RowSlice(call.X, loc.lo, loc'.lo),
                              IF call.y = None THEN None
                              ELSE RowSlice(call.y, loc.lo, loc'.lo),
                              loc'.doc_topic_distr)
           /\ loc'.doc_topic_distr # None => ret'.exc = "pending"]_vars

\* an E-step has run with a tolerance no iteration can meet: every document
\* has reached the cap of two iterations, and the fit goes on
C20_Witness ==
    /\ call.op = "fit" /\ pc = "iter_end" /\ ret.exc = "pending"
    /\ self.mean_change_tol = 0 /\ self.max_doc_update_iter = 2
    /\ loc.doc_topic_distr # None

\* ---------------------------------------------------------------- C21
\* a worker of the E-step takes a step
WorkerStep == pc = "workers" /\ pc' = "workers"

\* the objects the scheduler and the workers of one process share: the model
\* object with its generator, and the arguments X and y of the call
SharedObjects == <<self, call.X, call.y>>

\* C21: during the parallel E-step no object shared between the workers or
\* with the scheduler is written, with random initialisation too: every step
\* of a worker leaves self (random_state_ included), X and y as they were,
\* and what a worker reads is the snapshot taken at dispatch.
C21_AsStated ==
    [][WorkerStep => /\ SharedObjects' = SharedObjects
                     /\ \A i \in 1..Len(loc.tasks) : ArgsSeenBy(i) = loc.pickled]_vars

\* ---------------------------------------------------------------- C22
Dispatched == pc \in {"workers", "merged", "raised", "done"}
Merged == pc \in {"merged", "done"} /\ loc.merged # None

\* the slices are contiguous, non-empty and pairwise disjoint, and together
\* they hold every document of X exactly once
SlicesPartition(tasks, n_samples) ==
    /\ n_samples > 0 => tasks # <<>>
    /\ \A i \in 1..Len(tasks) :
          /\ tasks[i].slice.lo < tasks[i].slice.hi
          /\ tasks[i].slice.lo = IF i = 1 THEN 0 ELSE tasks[i - 1].slice.hi
          /\ i = Len(tasks) => tasks[i].slice.hi = n_samples

\* the task whose slice holds document d (d counts from 1)
TaskOf(d) == CHOOSE i \in 1..Len(loc.tasks) : loc.tasks[i].slice.lo < d /\ d <= loc.tasks[i].slice.hi

\* the initial vector document d was given by its worker
InitRow(d) == loc.tasks[TaskOf(d)].init.val[d - loc.tasks[TaskOf(d)].slice.lo]

\* the E-step on document d alone, from that vector and the parameters of
\* the dispatch
DocAlone(d) ==
    UpdateDocDistributionFrom(<<call.X[d]>>, IF call.y = None THEN None ELSE <<call.y[d]>>,
                              loc.pickled, call.cal_sstats,
                              [val |-> <<InitRow(d)>>, rng |-> None])

\* the sum of the documents' own sufficient statistics, document 1 first
RECURSIVE SstatsOfDocs(_, _)
SstatsOfDocs(acc, d) ==
    IF d > Len(call.X) THEN acc
    ELSE SstatsOfDocs(MatAdd(acc, DocAlone(d).suff_stats), d + 1)

\* the merged sufficient statistics are the sum over the slices, and the
\* same matrix as the sum over the documents taken one at a time
SstatsAreSums ==
    /\ loc.merged.suff_stats =
          SumSstats(Zeros(Len(self["components_"]), NCols(self["components_"])), loc.tasks)
    /\ loc.merged.suff_stats =
          SstatsOfDocs(Zeros(Len(self["components_"]), NCols(self["components_"])), 1)

\* C22: the dispatch splits the documents into contiguous, pairwise disjoint
\* slices that cover every document exactly once; the merge (and with it the
\* M-step) happens only when every slice has returned; row i of the merged
\* doc_topic_distr and of the merged regression targets is the result for
\* document i; the merged suff_stats are the elementwise sum over the
\* slices, for every number of workers.
C22_DispatchAndMerge ==
    /\ Dispatched => SlicesPartition(loc.tasks, Len(call.X))
    /\ pc \in {"merged", "raised", "done"} => AllReturned
    /\ Merged =>
          /\ Len(loc.merged.doc_topic_distr) = Len(call.X)
          /\ \A d \in 1..Len(call.X) :
                /\ loc.merged.doc_topic_distr[d] = DocAlone(d).doc_topic_distr[1]
                /\ loc.merged.dist_targets # None =>
                      loc.merged.dist_targets[d] = DocAlone(d).dist_targets[1]
          /\ call.cal_sstats => SstatsAreSums

\* slices of unequal size run by threads with random initialisation and
\* regression targets; the second slice returned first, the results were
\* merged and the M-step has run
C22_Witness ==
    /\ pc = "done"
    /\ Merged
    /\ loc.backend = "threading"
    /\ \E i, j \in 1..Len(loc.tasks) :
          loc.tasks[i].slice.hi - loc.tasks[i].slice.lo > loc.tasks[j].slice.hi - loc.tasks[j].slice.lo
    /\ call.cal_sstats
    /\ loc.merged.dist_targets # None
    /\ \E a, b \in 1..Len(log) : a < b /\ log[a] = <<"return", 2>> /\ log[b] = <<"return", 1>>
    /\ log[Len(log)] = <<"m_step">>

\* ---------------------------------------------------------------- C23
\* E[log beta] of components, exponentiated when no gap matrix is in use
ExpectationOf(components, y) ==
    IF y = None THEN NpExpMat(_dirichlet_expectation_2d(components))
    ELSE _dirichlet_expectation_2d(components)

\* fit is at a point where its next step may start an E-step: an _em_step,
\* the perplexity check of a pass, or the final perplexity
EStepMayStart == call.op = "fit" /\ pc \in {"em", "iter_end", "final"}

\* an _em_step of the running fit has just run its M-step
MStepRan == EmStepRan /\ pc' # "idle"

\* the mini-batch (or the whole corpus) the last _em_step worked on
LastBatch(l) == l.batches[Len(l.batches)]

\* components_ after the M-step on suff_stats, with the learning weight of
\* the n_batch_iter_ the step started with
ComponentsAfter(o, suff_stats, n_docs) ==
    UpdateComponents(o, suff_stats,
        LearningWeight(o.learning_offset, o["n_batch_iter_"], o.learning_decay),
        DocRatio(Len(call.X), n_docs), o.learning_method # "online")["components_"]

\* C23: an EM step updates components_ (with the weight of the old
\* n_batch_iter_), refits the regression weights only if enabled, recomputes
\* exp_dirichlet_component_ from the new components_ and then increments
\* n_batch_iter_; so whenever an E-step may start during fit,
\* exp_dirichlet_component_ is the Dirichlet expectation of the current
\* components_, exponentiated iff no gap matrix is in use.
C23_EmStepOrder ==
    /\ [](EStepMayStart =>
            self["exp_dirichlet_component_"] = ExpectationOf(self["components_"], call.y))
    /\ [][MStepRan =>
            /\ self'["components_"] =
                  ComponentsAfter(self, loc'.suff_stats,
                                  LastBatch(loc')[2] - LastBatch(loc')[1])
            /\ ~RegressionRuns(self, call.y) =>
                  (hasattr(self, "reg_weights_") = hasattr(self', "reg_weights_")
                   /\ (hasattr(self, "reg_weights_") =>
                          self'["reg_weights_"] = self["reg_weights_"]))
            /\ self'["exp_dirichlet_component_"] =
                  ExpectationOf(self'["components_"], call.y)
            /\ self'["n_batch_iter_"] = self["n_batch_iter_"] + 1]_vars

\* a further _em_step is about to start after one that changed components_
\* and with it the expectation, with and without a gap matrix
C23_Witness ==
    /\ call.op = "fit"
    /\ pc = "em"
    /\ loc.n_em >= 1
    /\ self.learning_method = "online"
    /\ call.y # None
    /\ self["n_batch_iter_"] = loc.n_em + 1
    /\ ExpectationOf(loc.before, call.y) # self["exp_dirichlet_component_"]

\* ---------------------------------------------------------------- C24
\* reg_weights_ as an optional attribute
RegWeightsOf(o) == IF hasattr(o, "reg_weights_") THEN <<o["reg_weights_"]>> ELSE None

\* the documents, gaps and gap counts the last _em_step worked on
BatchOf(m, l) == IF m = None THEN None ELSE RowSlice(m, LastBatch(l)[1], LastBatch(l)[2])

\* the weights one minimize call gives from the weights x0, on the targets
\* of the E-step of the step just taken
RefitFrom(x0, outcome) ==
    Minimize(x0, BatchOf(loc.dlens, loc'), BatchOf(call.y, loc'),
             _e_step(self, BatchOf(call.X, loc'), BatchOf(call.y, loc'), TRUE, TRUE).dist_targets,
             self["max_dist_"], outcome).x

\* the step made one minimize call, started from the current reg_weights_
RefitOnce ==
    \E outcome \in OptimizerOutcomes :
        /\ loc'.ores = <<outcome = "converged">>
        /\ self'["reg_weights_"] = RefitFrom(self["reg_weights_"], outcome)

\* fit has passed its initialisation with a gap matrix
RegWeightsInitialised == call.op = "fit" /\ call.y # None /\ pc \in {"em", "iter_end", "final"}

\* C24: with a gap matrix and no_regression false every EM step (every
\* mini-batch in online mode) refits reg_weights_ exactly once, the optimizer
\* starting from the current reg_weights_; in every other case no step of fit
\* changes reg_weights_ after its initialisation, so it keeps its initial
\* value (the constructor's reg_weights, or [-1, 1]) through the whole fit.
C24_RegWeightsRefit ==
    /\ [][IF MStepRan /\ RegressionRuns(self, call.y) THEN RefitOnce
          ELSE IF pc = "init" /\ pc' # "idle" /\ call.y # None
          THEN self'["reg_weights_"] = _init_log_reg_vars(self)["reg_weights_"]
          ELSE /\ RegWeightsOf(self') = RegWeightsOf(self)
               /\ MStepRan => loc'.ores = None]_vars
    /\ [](RegWeightsInitialised /\ self.no_regression =>
             self["reg_weights_"] = _init_log_reg_vars(self)["reg_weights_"])

\* the second EM step of a fit with a gap matrix has refit weights that the
\* first step had already moved away from their initial value
C24_Witness ==
    /\ RegWeightsInitialised
    /\ ~self.no_regression
    /\ loc.n_em = 2
    /\ loc.ores = <<TRUE>>
    /\ self["reg_weights_"] # _init_log_reg_vars(self)["reg_weights_"]

\* ---------------------------------------------------------------- C25
\* the forward and backward lattices of document d computed with the
\* expectation of the topic vector doc_topic_d, under the parameters of the
\* dispatch
LatticesOn(b, theta) ==
    [fwd |-> _forward(theta, b.beta, b.p, Len(b.cnts_seq)),
     bwd |-> _backward(theta, b.beta, b.p, 1, Len(b.cnts_seq)),
     cnts_seq |-> b.cnts_seq, ids_seq |-> b.ids_seq]

LatticesOf(d, doc_topic_d) ==
    LatticesOn(MarkovDocBins(call.X[d], call.y[d], loc.pickled.exp_topic_word_distr,
                             loc.pickled.reg_weights, loc.pickled.max_dist),
               NpExpRow(DirichletExpectationRow(doc_topic_d)))

\* the regression targets and the emission statistics read off lattices
TargetsFrom(lat, d) == _compute_log_reg_targets(lat.fwd, lat.bwd, Len(call.y[d]))
BetaStatsFrom(lat) ==
    _compute_beta_sstats(lat.cnts_seq, lat.ids_seq, lat.fwd, lat.bwd,
                         Len(loc.pickled.exp_topic_word_distr), NCols(call.X))

\* the sum of the emission statistics of the documents from d on, each from
\* the lattices of its final vector
RECURSIVE FinalBetaStats(_, _)
FinalBetaStats(acc, d) ==
    IF d > Len(call.X) THEN acc
    ELSE FinalBetaStats(
             MatAdd(acc, BetaStatsFrom(LatticesOf(d, loc.merged.doc_topic_distr[d]))), d + 1)

\* no task returned statistics
NoStatistics ==
    /\ loc.merged.suff_stats = None
    /\ loc.merged.dist_targets = None
    /\ \A i \in 1..Len(loc.tasks) :
          loc.tasks[i].result.suff_stats = None /\ loc.tasks[i].result.dist_targets = None

\* C25: when sufficient statistics are requested, the regression targets and
\* the emission statistics of every document are those of forward and
\* backward lattices computed with the expectation of the document's final
\* doc_topic_distr row (one more pass after the loop); when they are not
\* requested, the E-step returns None for both.
C25_StatsFromFinalLattices ==
    Merged =>
        IF ~call.cal_sstats THEN NoStatistics
        ELSE call.y # None =>
                /\ \A d \in 1..Len(call.X) :
                      loc.merged.dist_targets[d] =
                          TargetsFrom(LatticesOf(d, loc.merged.doc_topic_distr[d]), d)
                /\ loc.merged.suff_stats =
                      FinalBetaStats(Zeros(Len(self["components_"]), NCols(self["components_"])), 1)

\* an E-step with statistics whose loops made one iteration each: for some
\* document the lattices of that iteration (under the initial vector) give
\* other emission statistics than the lattices the statistics were taken from
C25_Witness ==
    /\ Merged
    /\ call.cal_sstats
    /\ call.y # None
    /\ loc.pickled.max_iters = 1
    /\ \E d \in 1..Len(call.X) :
          BetaStatsFrom(LatticesOf(d, InitRow(d)))
              # BetaStatsFrom(LatticesOf(d, loc.merged.doc_topic_distr[d]))

\* ---------------------------------------------------------------- C26
\* the number of rows and columns of a matrix
Shape(m) == <<Len(m), NCols(m)>>

\* the last call was a fit that raised in _check_params or in the
\* validation of X
FitFailedInValidation ==
    /\ pc = "idle"
    /\ call.op = "fit"
    /\ ret.exc # "none"
    /\ log \in {<<"_check_params">>, <<"_check_params", "_check_non_neg_array">>}

\* C26 as stated: after any sequence of fit calls on one model, failing ones
\* included, whenever components_ exists _n_components is its number of
\* rows and exp_dirichlet_component_ has its shape.
C26_AsStated ==
    (pc = "idle" /\ Fitted(self)) =>
        /\ self["_n_components"] = Len(self["components_"])
        /\ Shape(self["exp_dirichlet_component_"]) = Shape(self["components_"])

\* ---------------------------------------------------------------- C27
\* the model o is in the state the E-step path for y expects: the emission
\* matrix exponentiated for the plain path and in log form for the Markov
\* path, and reg_weights_ present for the Markov path
FormExpected(o, y) ==
    /\ o["exp_dirichlet_component_"] = ExpectationOf(o["components_"], y)
    /\ y # None => hasattr(o, "reg_weights_")

\* a step of fit that runs an E-step
FitEStep == call.op = "fit" /\ pc \in {"em", "iter_end", "final"} /\ Len(log') > Len(log)

\* a transform, score or perplexity that runs its E-step
QueryEStep == QueryCalled /\ ret'.esteps > 0

\* C27 as stated: whenever an E-step runs on a fitted model, from fit,
\* transform or score, exp_dirichlet_component_ is in the form the path
\* chosen by y expects and reg_weights_ exists on the Markov path, also
\* when the query's choice of y differs from the one of the fit.
C27_AsStated ==
    [][/\ FitEStep => FormExpected(self, call.y)
       /\ QueryEStep => FormExpected(self, call'.y)]_vars

\* ------------------------------------------------------------------- C28
\* the matrices a state holds: the receiver and what the last call returned
Matrices == {self} \cup (IF ret.val = None THEN {} ELSE {ret.val})
\* o has a row per region annotation and a column per cell annotation, and
\* row i holds the counts of the region regions[i]
ShapeAgrees(o) == Len(o.cmat.rows) = Len(o.regions) /\ o.cmat.ncols = Len(o.cannot)
RowsAgree(o) == \A i \in 1..Len(o.regions) : o.cmat.rows[i].of = {o.regions[i].label}

\* C28: after any sequence of CountMatrix operations the matrix has as many
\* rows as region annotations and as many columns as cell annotations, and
\* row i of cmat holds the counts of the i-th entry of regions.
C28_AsStated == \A o \in Matrices : ShapeAgrees(o) /\ RowsAgree(o)

\* ------------------------------------------------------------------- C29
FilterReturned == call.op = "filter_count_matrix" /\ ret.exc = "none"
CellTotalsWithin(o, a) ==
    \A j \in 1..o.cmat.ncols : Within(ColSum(o.cmat, j), a.minreadsincell, a.maxreadsincell)
RegionTotalsWithin(o, a) ==
    \A i \in 1..Len(o.cmat.rows) :
        Within(RowSum(o.cmat.rows[i]), a.minreadsinregion, a.maxreadsinregion)
NoDummy(o) == \A j \in 1..Len(o.cannot) : o.cannot[j].cell # "dummy"
\* a step that is a call of filter_count_matrix
FilterStep == call'.op = "filter_count_matrix" /\ log' # log

\* C29: in the CountMatrix returned by filter_count_matrix every retained
\* cell has a total count within [minreadsincell, maxreadsincell] and every
\* retained region one within [minreadsinregion, maxreadsinregion], both
\* measured on the returned matrix, no retained cell is the 'dummy'
\* barcode, and the receiver's cmat, regions and cannot are left unchanged.
C29_AsStated ==
    /\ [](FilterReturned =>
            /\ CellTotalsWithin(ret.val, call.a)
            /\ RegionTotalsWithin(ret.val, call.a)
            /\ NoDummy(ret.val))
    /\ [][FilterStep => self' = self]_vars

\* ------------------------------------------------------------------- C30
Entries(o) == {o.cmat.rows[i].cnts[j] : i \in 1..Len(o.cmat.rows), j \in 1..o.cmat.ncols}

\* C30: filter_count_matrix called with binarize=True returns a matrix whose
\* entries are all 0 or 1, for every value of trimcount; called with
\* binarize=False and trimcount = c > 0 it returns a matrix with no entry
\* larger than c.
C30_AsStated ==
    FilterReturned =>
        /\ call.a.binarize => Entries(ret.val) \subseteq {0, 1}
        /\ (~call.a.binarize /\ call.a.trimcount # None /\ call.a.trimcount[1] > 0)
              => \A n \in Entries(ret.val) : n <= call.a.trimcount[1]

====
